---- MODULE Spec2Model ----
(***************************************************************************)
(* Survey-panel ingestion (src/Data/db_insert): the three ETL scripts      *)
(* insert_1st.py (welcome_1st), insert_qpoll.py (qpoll_join_*.xlsx) and    *)
(* insert_2nd.py (welcome_2nd), the table dropper drop_table.py and the    *)
(* full pipeline insert_all.py, over the four PostgreSQL tables            *)
(* respondents, metadata, codebooks and answers.                           *)
(*                                                                         *)
(* Text is modelled by TLA+ strings (Len, SubSeq and \o act on them).      *)
(* The module is ASCII only, so the Korean literals of the source are      *)
(* romanised: '남' "nam", '여' "yeo", '남성' "namseong", '여성' "yeoseong",     *)
(* '구분' "gubun", '성별' "seongbyeol", '나이' "nai", '지역' "jiyeok",           *)
(* '문항1' "munhang1", '설문제목' "seolmunjemok", '보기i' "bogi<i>",           *)
(* '만' "man", '세' "se", '년' "nyeon".                                       *)
(***************************************************************************)
EXTENDS Integers, Sequences, FiniteSets, Bags, TLC

(***************************************************************************)
(* Values.  NaN is the pandas missing cell (read_csv and read_excel turn   *)
(* the texts 'NaN', 'NULL', '' into it, so no cell holds these texts);     *)
(* NULL is SQL NULL, which Python None becomes.                            *)
(***************************************************************************)
NaN == "NaN"
NULL == "NULL"

\* pd.isna / pd.notna
isna(v) == v = NaN
notna(v) == v # NaN

\* Python str(): str(float('nan')) is 'nan', a text is itself.
Str(v) == IF v = NaN THEN "nan" ELSE v

Ch(s, i) == SubSeq(s, i, i)

\* str.isspace() of one character (blank, line break, tab)
IsSpaceCh(c) == c = " " \/ c = "\n" \/ c = "\t"

RECURSIVE LStrip(_)
LStrip(s) == IF Len(s) > 0 /\ IsSpaceCh(Ch(s, 1)) THEN LStrip(SubSeq(s, 2, Len(s))) ELSE s

RECURSIVE RStrip(_)
RStrip(s) ==
    IF Len(s) > 0 /\ IsSpaceCh(Ch(s, Len(s))) THEN RStrip(SubSeq(s, 1, Len(s) - 1)) ELSE s

\* str.strip()
Strip(s) == LStrip(RStrip(s))

UpperChars == "ABCDEFGHIJKLMNOPQRSTUVWXYZ"
LowerChars == "abcdefghijklmnopqrstuvwxyz"

LowerCh(c) ==
    IF \E i \in 1..Len(UpperChars) : Ch(UpperChars, i) = c
    THEN Ch(LowerChars, CHOOSE i \in 1..Len(UpperChars) : Ch(UpperChars, i) = c)
    ELSE c

UpperCh(c) ==
    IF \E i \in 1..Len(LowerChars) : Ch(LowerChars, i) = c
    THEN Ch(UpperChars, CHOOSE i \in 1..Len(LowerChars) : Ch(LowerChars, i) = c)
    ELSE c

RECURSIVE Lower(_)
Lower(s) == IF Len(s) = 0 THEN "" ELSE LowerCh(Ch(s, 1)) \o Lower(SubSeq(s, 2, Len(s)))

RECURSIVE Upper(_)
Upper(s) == IF Len(s) = 0 THEN "" ELSE UpperCh(Ch(s, 1)) \o Upper(SubSeq(s, 2, Len(s)))

\* str.startswith / str.endswith
StartsWith(s, p) == Len(p) <= Len(s) /\ SubSeq(s, 1, Len(p)) = p
EndsWith(s, p) == Len(p) <= Len(s) /\ SubSeq(s, Len(s) - Len(p) + 1, Len(s)) = p

\* str.replace(old, new): every non-overlapping occurrence, left to right.
RECURSIVE Replace(_, _, _)
Replace(s, old, new) ==
    IF Len(s) = 0 THEN ""
    ELSE IF Len(old) > 0 /\ StartsWith(s, old)
         THEN new \o Replace(SubSeq(s, Len(old) + 1, Len(s)), old, new)
         ELSE Ch(s, 1) \o Replace(SubSeq(s, 2, Len(s)), old, new)

Digits == "0123456789"
IsDigitCh(c) == \E i \in 1..Len(Digits) : Ch(Digits, i) = c

\* str.isdigit(): non-empty and digits only.
isdigit(s) == Len(s) > 0 /\ \A i \in 1..Len(s) : IsDigitCh(Ch(s, i))

\* The value taken as one token: no split on ','.
split_values_whole(answer_string) == <<answer_string>>

\* str.split(',') followed by the comprehension
\* [val.strip() for val in s.split(',') if val.strip()].
RECURSIVE SplitComma(_, _)
SplitComma(s, cur) ==
    IF Len(s) = 0 THEN <<cur>>
    ELSE IF Ch(s, 1) = "," THEN <<cur>> \o SplitComma(SubSeq(s, 2, Len(s)), "")
         ELSE SplitComma(SubSeq(s, 2, Len(s)), cur \o Ch(s, 1))

RECURSIVE StripNonBlank(_)
StripNonBlank(parts) ==
    IF Len(parts) = 0 THEN <<>>
    ELSE IF Strip(Head(parts)) # "" THEN <<Strip(Head(parts))>> \o StripNonBlank(Tail(parts))
         ELSE StripNonBlank(Tail(parts))

split_values(answer_string) == StripNonBlank(SplitComma(answer_string, ""))

\* PostgreSQL "string LIKE pattern": '%' matches any run of characters, '_'
\* exactly one character, any other character itself (the escape character
\* '\' is not in the alphabet of the modelled file names).
RECURSIVE LikeAt(_, _, _, _)
LikeAt(s, i, p, j) ==
    IF j > Len(p) THEN i > Len(s)
    ELSE IF Ch(p, j) = "%" THEN \E k \in i..(Len(s) + 1) : LikeAt(s, k, p, j + 1)
    ELSE /\ i <= Len(s)
         /\ (Ch(p, j) = "_" \/ Ch(p, j) = Ch(s, i))
         /\ LikeAt(s, i + 1, p, j + 1)

LIKE(s, pattern) == LikeAt(s, 1, pattern, 1)


(***************************************************************************)
(* Numbers as text.  The INT columns birth_year and age are kept as the    *)
(* canonical decimal text of the number, so that every metadata field is   *)
(* text or NULL.                                                           *)
(***************************************************************************)
DigitVal(c) == (CHOOSE i \in 1..Len(Digits) : Ch(Digits, i) = c) - 1

RECURSIVE StrToInt(_)
StrToInt(s) ==
    IF Len(s) = 0 THEN 0
    ELSE StrToInt(SubSeq(s, 1, Len(s) - 1)) * 10 + DigitVal(Ch(s, Len(s)))

RECURSIVE IntToStr(_)
IntToStr(n) ==
    IF n < 0 THEN "-" \o IntToStr(0 - n)
    ELSE IF n < 10 THEN Ch(Digits, n + 1)
    ELSE IntToStr(n \div 10) \o Ch(Digits, (n % 10) + 1)

\* int(text) of a digit string, then the value as PostgreSQL INT shows it.
PyInt(s) == IntToStr(StrToInt(s))

\* PostgreSQL's input conversion of a text literal to INT: digits only
\* (surrounding blanks and signs do not occur: every value is stripped).
IsIntLiteral(s) == isdigit(s)

\* datetime.now().year
current_year == 2025

\* insert_1st.calculate_age_format
calculate_age_format(birth_year_str) ==
    IF birth_year_str = "" \/ ~isdigit(birth_year_str) \/ Len(birth_year_str) # 4
    THEN birth_year_str
    ELSE birth_year_str \o "nyeon (man "
         \o IntToStr(current_year - StrToInt(birth_year_str)) \o "se)"

\* insert_1st.map_gender
map_gender_1st(gender_raw) ==
    LET gender_str == Upper(Strip(gender_raw))
    IN  IF gender_str = "M" THEN "namseong"
        ELSE IF gender_str = "F" THEN "yeoseong"
        ELSE gender_raw

\* insert_qpoll.clean_cell
clean_cell(val) ==
    IF isna(val) THEN ""
    ELSE LET s == Strip(Str(val))
         IN  IF Lower(s) = "nan" THEN "" ELSE s

\* insert_qpoll.map_gender
map_gender_qpoll(gender_raw) ==
    IF gender_raw = "nam" THEN "namseong"
    ELSE IF gender_raw = "yeo" THEN "yeoseong"
    ELSE gender_raw

StartsWithAt(s, i, p) == i + Len(p) - 1 <= Len(s) /\ SubSeq(s, i, i + Len(p) - 1) = p

RECURSIVE SkipSpaces(_, _)
SkipSpaces(s, i) == IF i <= Len(s) /\ IsSpaceCh(Ch(s, i)) THEN SkipSpaces(s, i + 1) ELSE i

RECURSIVE DigitRun(_, _)
DigitRun(s, i) == IF i <= Len(s) /\ IsDigitCh(Ch(s, i)) THEN 1 + DigitRun(s, i + 1) ELSE 0

\* re.search(r'(19|20)\d{2}', s): the leftmost match, or "" for no match.
BirthYearMatch(s) ==
    LET hit(i) == /\ (StartsWithAt(s, i, "19") \/ StartsWithAt(s, i, "20"))
                  /\ DigitRun(s, i) >= 4
        starts == {i \in 1..Len(s) : hit(i)}
    IN  IF starts = {} THEN ""
        ELSE LET i == CHOOSE k \in starts : \A m \in starts : k <= m
             IN  SubSeq(s, i, i + 3)

\* One attempt of r'man?\s*(\d{1,3})\s*se' with the digits starting after
\* the blanks at j: the digit run must be 1 to 3 long and be followed, after
\* blanks, by "se".  The result is group(1), or "" when the attempt fails.
AgeGroupFrom(s, j) ==
    LET d == SkipSpaces(s, j)
        n == DigitRun(s, d)
    IN  IF n >= 1 /\ n <= 3 /\ StartsWithAt(s, SkipSpaces(s, d + n), "se")
        THEN SubSeq(s, d, d + n - 1)
        ELSE ""

AgeGroupAt(s, i) ==
    IF StartsWithAt(s, i, "man") /\ AgeGroupFrom(s, i + 3) # ""
    THEN AgeGroupFrom(s, i + 3)
    ELSE AgeGroupFrom(s, i)

\* insert_qpoll.parse_qpoll_age_info: <<birth_year, age>>, None as NULL.
parse_qpoll_age_info(age_raw_str) ==
    IF age_raw_str = "" THEN <<NULL, NULL>>
    ELSE LET s == Strip(age_raw_str)
             by == BirthYearMatch(s)
             starts == {i \in 1..Len(s) : AgeGroupAt(s, i) # ""}
             age == IF starts = {} THEN ""
                    ELSE AgeGroupAt(s, CHOOSE k \in starts : \A m \in starts : k <= m)
         IN  << IF by = "" THEN NULL ELSE PyInt(by),
                IF age = "" THEN NULL ELSE PyInt(age) >>


(***************************************************************************)
(* Input files.  A DataFrame is [readable, columns, rows]: the header and  *)
(* the rows of cells, in file order; readable = FALSE is a file pandas     *)
(* cannot read (missing, not a spreadsheet, undecodable in both            *)
(* encodings), on which the read raises.                                   *)
(***************************************************************************)
DataFrame(columns, rows) == [readable |-> TRUE, columns |-> columns, rows |-> rows]
Unreadable == [readable |-> FALSE, columns |-> <<>>, rows |-> <<>>]

InSeq(x, seq) == \E i \in 1..Len(seq) : seq[i] = x
IndexOf(x, seq) == CHOOSE i \in 1..Len(seq) : seq[i] = x /\ \A j \in 1..(i - 1) : seq[j] # x

\* row_dict.get(col, default) of row._asdict()
Get(columns, row, col, default) ==
    IF InSeq(col, columns) THEN row[IndexOf(col, columns)] ELSE default

ID_CANDIDATES == <<"mb_sn", "goyubeonho", "paeneolID", "id">>
METADATA_COLUMNS == <<"gubun", "seongbyeol", "nai", "jiyeok">>
COLUMNS_TO_IGNORE == <<"seolmunilsi">>

\* The first column of the file that is a candidate, whatever its place in
\* ID_CANDIDATES.
FirstCandidate_in_file_order(columns) ==
    LET hits == {i \in 1..Len(columns) : InSeq(columns[i], ID_CANDIDATES)}
    IN  IF hits = {} THEN ""
        ELSE columns[CHOOSE i \in hits : \A j \in hits : i <= j]

\* for candidate in ID_CANDIDATES: if candidate in header: ... break
\* ("" when the header has none of the candidates)
FirstCandidate(columns) ==
    LET hits == {i \in 1..Len(ID_CANDIDATES) : InSeq(ID_CANDIDATES[i], columns)}
    IN  IF hits = {} THEN ""
        ELSE ID_CANDIDATES[CHOOSE i \in hits : \A j \in hits : i <= j]

\* What a data stage hands to its merge: the respondent ids (a set), the
\* metadata tuples and the answer tuples (lists, in file order).
Parsed(ok, ids, md, ans) == [ok |-> ok, respondents |-> ids, metadata |-> md, answers |-> ans]
ParseFailed == Parsed(FALSE, {}, <<>>, <<>>)

MetadataRow(mb_sn, mobile_carrier, gender, birth_year, age, region) ==
    [mb_sn |-> mb_sn, mobile_carrier |-> mobile_carrier, gender |-> gender,
     birth_year |-> birth_year, age |-> age, region |-> region]

AnswerRow(mb_sn, question_id, answer_value) ==
    [mb_sn |-> mb_sn, question_id |-> question_id, answer_value |-> answer_value]

\* for final_value in split_values: answers_to_insert.append(...)
RECURSIVE AnswerRows(_, _, _)
AnswerRows(mb_sn, unique_question_id, values) ==
    IF Len(values) = 0 THEN <<>>
    ELSE <<AnswerRow(mb_sn, unique_question_id, Head(values))>>
         \o AnswerRows(mb_sn, unique_question_id, Tail(values))

(***************************************************************************)
(* insert_1st.process_welcome_etl, the parsing half.                      *)
(***************************************************************************)
\* The id column of a Welcome file: the first candidate present.  (The
\* fallback to 'mb_sn' never changes it: 'mb_sn' is the first candidate.)
welcome_id_column(columns) ==
    LET id_column == FirstCandidate(columns)
    IN  IF id_column # "mb_sn" /\ InSeq("mb_sn", columns) THEN "mb_sn" ELSE id_column

\* One row of the Welcome file: its metadata tuple.  mobile_carrier is None;
\* the table's birth_year is not written by this script.
welcome_row(columns, row, mb_sn) ==
    LET gender_raw == Strip(Str(Get(columns, row, "Q10", "")))
        age_raw == Strip(Str(Get(columns, row, "Q11", "")))
        q2_1_clean == Strip(Str(Get(columns, row, "Q12_1", "")))
        q2_2_clean == Strip(Str(Get(columns, row, "Q12_2", "")))
        region == IF q2_1_clean # "" /\ q2_2_clean # ""
                  THEN q2_1_clean \o " " \o q2_2_clean
                  ELSE IF q2_1_clean # "" THEN q2_1_clean ELSE q2_2_clean
    IN  MetadataRow(mb_sn, NULL, map_gender_1st(gender_raw), NULL,
                    calculate_age_format(age_raw), region)

RECURSIVE welcome_rows(_, _, _)
welcome_rows(columns, id_column, rows) ==
    IF Len(rows) = 0 THEN Parsed(TRUE, {}, <<>>, <<>>)
    ELSE LET mb_sn == Strip(Str(Get(columns, Head(rows), id_column, "")))
             rest == welcome_rows(columns, id_column, Tail(rows))
         IN  IF mb_sn = "" THEN rest
             ELSE Parsed(TRUE, {mb_sn} \cup rest.respondents,
                         <<welcome_row(columns, Head(rows), mb_sn)>> \o rest.metadata, <<>>)

parse_welcome(df_data) ==
    IF ~df_data.readable THEN ParseFailed
    ELSE LET id_column == welcome_id_column(df_data.columns)
         IN  IF id_column = "" THEN ParseFailed
             ELSE welcome_rows(df_data.columns, id_column, df_data.rows)

(***************************************************************************)
(* insert_2nd.process_data_etl, the parsing half.                         *)
(***************************************************************************)
\* for question_id, raw_answer_value in row_dict.items(): the answer tuples
\* of the columns from i on.
RECURSIVE second_row_answers(_, _, _, _, _)
second_row_answers(columns, row, mb_sn, prefix, i) ==
    IF i > Len(columns) THEN <<>>
    ELSE LET rest == second_row_answers(columns, row, mb_sn, prefix, i + 1)
             answer_string == Strip(Str(row[i]))
         IN  IF columns[i] = "mb_sn" \/ isna(row[i]) \/ answer_string = "" THEN rest
             ELSE AnswerRows(mb_sn, prefix \o columns[i], split_values(answer_string))
                  \o rest

RECURSIVE second_rows(_, _, _)
second_rows(columns, rows, prefix) ==
    IF Len(rows) = 0 THEN Parsed(TRUE, {}, <<>>, <<>>)
    ELSE LET mb_sn == Strip(Str(Get(columns, Head(rows), "mb_sn", "")))
             rest == second_rows(columns, Tail(rows), prefix)
         IN  IF mb_sn = "" THEN rest
             ELSE Parsed(TRUE, {mb_sn} \cup rest.respondents, <<>>,
                         second_row_answers(columns, Head(rows), mb_sn, prefix, 1)
                         \o rest.answers)

parse_second(df_panel, prefix) ==
    IF ~df_panel.readable THEN ParseFailed
    ELSE IF ~InSeq("mb_sn", df_panel.columns) THEN ParseFailed
    ELSE second_rows(df_panel.columns, df_panel.rows, prefix)

(***************************************************************************)
(* insert_qpoll.process_data_etl, the parsing half.  Sheet 1 of a qpoll    *)
(* workbook is [readable, titles, columns, rows]: titles is row 1 (the     *)
(* question titles, NaN on the continuation cells of a merged cell),       *)
(* columns is row 2 (the short codes), rows are the data rows.             *)
(***************************************************************************)
Sheet1(titles, columns, rows) ==
    [readable |-> TRUE, titles |-> titles, columns |-> columns, rows |-> rows]
UnreadableSheet == [readable |-> FALSE, titles |-> <<>>, columns |-> <<>>, rows |-> <<>>]

\* Every cell resolved by itself: no title is carried to the right.
forward_fill_unfilled(title_values, last_title) ==
    [i \in 1..Len(title_values) |->
        IF notna(title_values[i]) /\ ~StartsWith(Str(title_values[i]), "Unnamed")
        THEN Replace(Strip(Str(title_values[i])), "\n", " ")
        ELSE last_title]

\* The forward fill of the title row: title_columns.
RECURSIVE forward_fill(_, _)
forward_fill(title_values, last_title) ==
    IF Len(title_values) = 0 THEN <<>>
    ELSE LET val == Head(title_values)
             t == IF notna(val) /\ ~StartsWith(Str(val), "Unnamed")
                  THEN Replace(Strip(Str(val)), "\n", " ")
                  ELSE last_title
         IN  <<t>> \o forward_fill(Tail(title_values), t)

\* zip(panel_columns, title_columns) stops at the shorter list.
Min(a, b) == IF a <= b THEN a ELSE b

\* The test without its last condition: a column of free text is a question
\* column as any other.
IsQuestionColumn_free_text(panel_col) ==
    /\ ~InSeq(panel_col, ID_CANDIDATES)
    /\ ~InSeq(panel_col, METADATA_COLUMNS)
    /\ ~InSeq(panel_col, COLUMNS_TO_IGNORE)

IsQuestionColumn(panel_col) ==
    /\ ~InSeq(panel_col, ID_CANDIDATES)
    /\ ~InSeq(panel_col, METADATA_COLUMNS)
    /\ ~InSeq(panel_col, COLUMNS_TO_IGNORE)
    /\ ~EndsWith(panel_col, "_ETC")

\* question_id_map.get(question_id): the title of the last column of that
\* name that the map holds, "" (falsy, like None) when the map has no key.
question_id_map_get(panel_columns, title_columns, question_id) ==
    LET n == Min(Len(panel_columns), Len(title_columns))
        keys == {i \in 1..n : panel_columns[i] = question_id /\ IsQuestionColumn(panel_columns[i])}
    IN  IF keys = {} THEN ""
        ELSE title_columns[CHOOSE i \in keys : \A j \in keys : j <= i]

RECURSIVE qpoll_row_answers(_, _, _, _, _, _)
qpoll_row_answers(panel_columns, title_columns, row, mb_sn, prefix, i) ==
    IF i > Len(panel_columns) THEN <<>>
    ELSE LET rest == qpoll_row_answers(panel_columns, title_columns, row, mb_sn, prefix, i + 1)
             question_id == panel_columns[i]
             real_question_id == question_id_map_get(panel_columns, title_columns, question_id)
             answer_string == clean_cell(row[i])
         IN  IF \/ InSeq(question_id, ID_CANDIDATES)
                \/ InSeq(question_id, METADATA_COLUMNS)
                \/ InSeq(question_id, COLUMNS_TO_IGNORE)
                \/ real_question_id = ""
                \/ answer_string = ""
             THEN rest
             ELSE AnswerRows(mb_sn, prefix \o real_question_id, split_values(answer_string))
                  \o rest

qpoll_row_metadata(columns, row, mb_sn) ==
    LET mobile_carrier == clean_cell(Get(columns, row, "gubun", NaN))
        gender == map_gender_qpoll(clean_cell(Get(columns, row, "seongbyeol", NaN)))
        age_info == parse_qpoll_age_info(clean_cell(Get(columns, row, "nai", NaN)))
        region == clean_cell(Get(columns, row, "jiyeok", NaN))
    IN  MetadataRow(mb_sn, mobile_carrier, gender, age_info[1], age_info[2], region)

\* metadata_to_insert_dict[mb_sn] = (...): a repeated id keeps its place in
\* the dict and takes the later tuple.
dict_put(md, tuple) ==
    IF \E i \in 1..Len(md) : md[i].mb_sn = tuple.mb_sn
    THEN [i \in 1..Len(md) |-> IF md[i].mb_sn = tuple.mb_sn THEN tuple ELSE md[i]]
    ELSE Append(md, tuple)

RECURSIVE qpoll_rows(_, _, _, _, _)
qpoll_rows(panel_columns, title_columns, rows, prefix, acc) ==
    IF Len(rows) = 0 THEN acc
    ELSE LET row == Head(rows)
             mb_sn == clean_cell(Get(panel_columns, row, FirstCandidate(panel_columns), NaN))
             next == IF mb_sn = "" THEN acc
                     ELSE Parsed(TRUE, acc.respondents \cup {mb_sn},
                                 dict_put(acc.metadata, qpoll_row_metadata(panel_columns, row, mb_sn)),
                                 acc.answers
                                 \o qpoll_row_answers(panel_columns, title_columns, row, mb_sn, prefix, 1))
         IN  qpoll_rows(panel_columns, title_columns, Tail(rows), prefix, next)

parse_qpoll(sheet1, prefix) ==
    IF ~sheet1.readable THEN ParseFailed
    ELSE LET title_columns == forward_fill(sheet1.titles, "")
             panel_columns == [i \in 1..Len(sheet1.columns) |-> Strip(Str(sheet1.columns[i]))]
         IN  IF FirstCandidate(panel_columns) = "" THEN ParseFailed
             ELSE qpoll_rows(panel_columns, title_columns, sheet1.rows, prefix,
                             Parsed(TRUE, {}, <<>>, <<>>))

(***************************************************************************)
(* The codebook parsers.  A codebook object is the JSON payload            *)
(* {codebook_id, q_title, answers: [{qi_val, qi_title}, ...]}.             *)
(***************************************************************************)
CodebookObj(codebook_id, q_title, answers) ==
    [codebook_id |-> codebook_id, q_title |-> q_title, answers |-> answers]

Choice(qi_val, qi_title) == [qi_val |-> qi_val, qi_title |-> qi_title]

NoCodebooks == [id \in {} |-> CodebookObj("", "", <<>>)]

\* d[key] = value of a dict from ids to codebook objects
Put(d, key, value) == [k \in DOMAIN d \cup {key} |-> IF k = key THEN value ELSE d[k]]

\* insert_qpoll.process_codebook_etl: the bogi1..bogi10 columns of one row
max_options == 10

RECURSIVE horizontal_choices(_, _, _)
horizontal_choices(columns, row, i) ==
    IF i > max_options THEN <<>>
    ELSE LET qi_title_key == "bogi" \o IntToStr(i)
             qi_title == Strip(Str(Get(columns, row, qi_title_key, "")))
             rest == horizontal_choices(columns, row, i + 1)
         IN  IF qi_title # "" /\ InSeq(qi_title_key, columns)
                /\ notna(Get(columns, row, qi_title_key, NaN))
             THEN <<Choice(IntToStr(i), qi_title)>> \o rest
             ELSE rest

RECURSIVE horizontal_rows(_, _, _, _)
horizontal_rows(columns, rows, prefix, codebook_dict) ==
    IF Len(rows) = 0 THEN codebook_dict
    ELSE LET row == Head(rows)
             q_title == Strip(Str(Get(columns, row, "seolmunjemok", "")))
             unique_id == prefix \o Replace(q_title, "\n", " ")
             next == IF \/ q_title = ""
                        \/ InSeq(q_title, METADATA_COLUMNS)
                        \/ InSeq(q_title, ID_CANDIDATES)
                     THEN codebook_dict
                     ELSE Put(codebook_dict, unique_id,
                              CodebookObj(unique_id, q_title, horizontal_choices(columns, row, 1)))
         IN  horizontal_rows(columns, Tail(rows), prefix, next)

\* Sheet 2 of a qpoll workbook: [ok, codebooks]; ok is the function's return
\* value (False only when the sheet cannot be read).
parse_codebook_qpoll(df_codebook, prefix) ==
    IF ~df_codebook.readable THEN [ok |-> FALSE, codebooks |-> NoCodebooks]
    ELSE [ok |-> TRUE,
          codebooks |-> horizontal_rows(df_codebook.columns, df_codebook.rows, prefix, NoCodebooks)]

\* insert_2nd.process_codebook_etl: the loop over the rows of the vertical
\* codebook.  st = [id, title, answers, objects] are current_question_id
\* ("" for None), current_question_title, current_answers, codebook_objects.
IsQuestionStart(row) == notna(row[1]) /\ Strip(Str(row[1])) # ""

\* The step without "current_answers = []" at a question start: the choices
\* collected so far go on into the new question.
vertical_step_unreset(st, row, prefix) ==
    LET var_name == Strip(Str(row[1]))
        question_text == Strip(Str(row[2]))
        question_type == Strip(Str(row[3]))
    IN  IF IsQuestionStart(row)
        THEN [id |-> var_name, title |-> question_text, answers |-> st.answers,
              objects |-> IF st.id # ""
                          THEN Append(st.objects, CodebookObj(prefix \o st.id, st.title, st.answers))
                          ELSE st.objects]
        ELSE IF notna(row[2]) /\ notna(row[3])
                /\ isdigit(question_text)
                /\ question_type \notin {"SINGLE", "Numeric", "String", "nan"}
             THEN [st EXCEPT !.answers = Append(@, Choice(question_text, question_type))]
             ELSE st

vertical_step(st, row, prefix) ==
    LET var_name == Strip(Str(row[1]))
        question_text == Strip(Str(row[2]))
        question_type == Strip(Str(row[3]))
    IN  IF IsQuestionStart(row)
        THEN [id |-> var_name, title |-> question_text, answers |-> <<>>,
              objects |-> IF st.id # ""
                          THEN Append(st.objects, CodebookObj(prefix \o st.id, st.title, st.answers))
                          ELSE st.objects]
        ELSE IF notna(row[2]) /\ notna(row[3])
                /\ isdigit(question_text)
                /\ question_type \notin {"SINGLE", "Numeric", "String", "nan"}
             THEN [st EXCEPT !.answers = Append(@, Choice(question_text, question_type))]
             ELSE st

RECURSIVE vertical_rows(_, _, _)
vertical_rows(st, rows, prefix) ==
    IF Len(rows) = 0
    THEN IF st.id # ""
         THEN Append(st.objects, CodebookObj(prefix \o st.id, st.title, st.answers))
         ELSE st.objects
    ELSE vertical_rows(vertical_step(st, Head(rows), prefix), Tail(rows), prefix)

\* codebook_objects of a vertical codebook file, in emission order
vertical_objects(rows, prefix) ==
    vertical_rows([id |-> "", title |-> "", answers |-> <<>>, objects |-> <<>>], rows, prefix)

\* data_to_insert: the objects but prefix + 'mb_sn', keyed by id, last wins
RECURSIVE unique_data_dict(_, _, _)
unique_data_dict(objects, prefix, d) ==
    IF Len(objects) = 0 THEN d
    ELSE unique_data_dict(Tail(objects), prefix,
                          IF Head(objects).codebook_id = prefix \o "mb_sn" THEN d
                          ELSE Put(d, Head(objects).codebook_id, Head(objects)))

parse_codebook_second(df_codebook, prefix) ==
    IF ~df_codebook.readable THEN [ok |-> FALSE, codebooks |-> NoCodebooks]
    ELSE [ok |-> TRUE,
          codebooks |-> unique_data_dict(vertical_objects(df_codebook.rows, prefix), prefix, NoCodebooks)]

(***************************************************************************)
(* The store: the four tables.  schema is the shape of the metadata table: *)
(* "none" before any CREATE TABLE, "v1" as insert_1st and insert_2nd       *)
(* create it (age VARCHAR(50), no birth_year column), "v2" as insert_qpoll *)
(* creates it (birth_year INT, age INT).  CREATE TABLE IF NOT EXISTS keeps *)
(* whichever shape came first.  metadata maps an mb_sn to its row,         *)
(* codebooks a codebook_id to its codebook_data, answers is the bag of     *)
(* (mb_sn, question_id, answer_value) rows: the serial answer_id and       *)
(* metadata_id are left out.                                               *)
(***************************************************************************)
NoMetadata == [id \in {} |-> MetadataRow("", NULL, NULL, NULL, NULL, NULL)]

Store(schema, respondents, metadata, codebooks, answers) ==
    [schema |-> schema, respondents |-> respondents, metadata |-> metadata,
     codebooks |-> codebooks, answers |-> answers]

EmptyStore == Store("none", {}, NoMetadata, NoCodebooks, EmptyBag)

\* SET col = EXCLUDED.col: the candidate replaces what is stored.
EXCLUDED(a, b) == b

\* COALESCE(a, b)
COALESCE(a, b) == IF a # NULL THEN a ELSE b

\* The rows of the respondents table, (mb_sn, profile_vector): the tables of
\* the store keep the key alone, the statement below is the same INSERT on
\* the rows.
RespondentRow(mb_sn, profile_vector) == [mb_sn |-> mb_sn, profile_vector |-> profile_vector]

\* ON CONFLICT (mb_sn) DO UPDATE SET profile_vector = DEFAULT
respondents_query_overwriting(rows, ids) ==
    {r \in rows : r.mb_sn \notin ids} \cup {RespondentRow(id, NULL) : id \in ids}

\* respondents_query: a new row has the column default, NULL, as its vector
respondents_query(rows, ids) ==
    rows \cup {RespondentRow(id, NULL) : id \in {i \in ids : \A r \in rows : r.mb_sn # i}}

\* The respondents statement left out of the merge.
insert_respondents_skipped(db, ids) == db

\* INSERT INTO respondents (mb_sn) VALUES ... ON CONFLICT (mb_sn) DO NOTHING
insert_respondents(db, ids) == [db EXCEPT !.respondents = @ \cup ids]

\* One row of INSERT INTO metadata (mb_sn, mobile_carrier, gender,
\* birth_year, age, region) ... ON CONFLICT (mb_sn) DO UPDATE SET
\* col = COALESCE(metadata.col, EXCLUDED.col), as insert_qpoll issues it.
upsert_metadata_row_qpoll(metadata, t) ==
    IF t.mb_sn \in DOMAIN metadata
    THEN LET old == metadata[t.mb_sn]
         IN  Put(metadata, t.mb_sn,
                 MetadataRow(t.mb_sn,
                             COALESCE(old.mobile_carrier, t.mobile_carrier),
                             COALESCE(old.gender, t.gender),
                             COALESCE(old.birth_year, t.birth_year),
                             COALESCE(old.age, t.age),
                             COALESCE(old.region, t.region)))
    ELSE Put(metadata, t.mb_sn, t)

\* The same statement as insert_1st issues it: birth_year is not among its
\* columns, so a new row takes the column default NULL and an existing row
\* keeps what it has.
upsert_metadata_row_1st(metadata, t) ==
    IF t.mb_sn \in DOMAIN metadata
    THEN LET old == metadata[t.mb_sn]
         IN  Put(metadata, t.mb_sn,
                 MetadataRow(t.mb_sn,
                             COALESCE(old.mobile_carrier, t.mobile_carrier),
                             COALESCE(old.gender, t.gender),
                             old.birth_year,
                             COALESCE(old.age, t.age),
                             COALESCE(old.region, t.region)))
    ELSE Put(metadata, t.mb_sn,
             MetadataRow(t.mb_sn, t.mobile_carrier, t.gender, NULL, t.age, t.region))

RECURSIVE upsert_metadata_qpoll(_, _)
upsert_metadata_qpoll(metadata, list) ==
    IF Len(list) = 0 THEN metadata
    ELSE upsert_metadata_qpoll(upsert_metadata_row_qpoll(metadata, Head(list)), Tail(list))

RECURSIVE upsert_metadata_1st(_, _)
upsert_metadata_1st(metadata, list) ==
    IF Len(list) = 0 THEN metadata
    ELSE upsert_metadata_1st(upsert_metadata_row_1st(metadata, Head(list)), Tail(list))

\* PostgreSQL rejects insert_qpoll's metadata statement when the table has
\* no birth_year column.
metadata_error_qpoll(db, list) == db.schema = "v1"

\* PostgreSQL rejects insert_1st's metadata statement when two of its rows
\* have the same mb_sn (ON CONFLICT DO UPDATE cannot affect a row a second
\* time; execute_values sends the rows of a file, up to its page size of 100,
\* in one statement), and when the age column is INT and an age text is no
\* number.
metadata_error_1st(db, list) ==
    \/ \E i, j \in 1..Len(list) : i # j /\ list[i].mb_sn = list[j].mb_sn
    \/ db.schema = "v2" /\ \E i \in 1..Len(list) : ~IsIntLiteral(list[i].age)

\* The WHERE clause without its mb_sn = ANY(ids) condition.
delete_answers_any_respondent(answers, ids, prefix) ==
    LET keep == {r \in DOMAIN answers : ~LIKE(r.question_id, prefix \o "%")}
    IN  [r \in keep |-> answers[r]]

\* The statement left out: nothing is deleted.
delete_answers_skipped(answers, ids, prefix) == answers

\* DELETE FROM answers WHERE mb_sn = ANY(ids) AND question_id LIKE prefix%
delete_answers(answers, ids, prefix) ==
    LET keep == {r \in DOMAIN answers : ~(r.mb_sn \in ids /\ LIKE(r.question_id, prefix \o "%"))}
    IN  [r \in keep |-> answers[r]]

RECURSIVE SeqToBag(_)
SeqToBag(seq) == IF Len(seq) = 0 THEN EmptyBag ELSE SetToBag({Head(seq)}) (+) SeqToBag(Tail(seq))

\* INSERT INTO answers (mb_sn, question_id, answer_value) VALUES ...
insert_answers(answers, list) == answers (+) SeqToBag(list)

\* ON CONFLICT (codebook_id) DO UPDATE SET codebook_data = the stored data
\* with the choices of EXCLUDED.codebook_data appended to its own.
upsert_codebooks_appending(codebooks, data_to_insert) ==
    [id \in DOMAIN codebooks \cup DOMAIN data_to_insert |->
        IF id \notin DOMAIN data_to_insert THEN codebooks[id]
        ELSE IF id \notin DOMAIN codebooks THEN data_to_insert[id]
        ELSE [data_to_insert[id] EXCEPT !.answers = codebooks[id].answers \o @]]

\* INSERT INTO codebooks ... ON CONFLICT (codebook_id) DO UPDATE SET
\* codebook_data = EXCLUDED.codebook_data
upsert_codebooks(codebooks, data_to_insert) ==
    [id \in DOMAIN codebooks \cup DOMAIN data_to_insert |->
        IF id \in DOMAIN data_to_insert THEN data_to_insert[id] ELSE codebooks[id]]

(***************************************************************************)
(* Transactions.  A stage issues its statements in one transaction; fault  *)
(* names the statement at which the database raises for a reason outside   *)
(* the data (a lost connection, a full disk), "none" for no such fault.    *)
(* working is the transaction's view when it ends.                         *)
(***************************************************************************)
Faults == {"none", "respondents", "metadata", "delete", "insert", "codebooks", "commit"}

\* conn.commit()
commit(committed, working) == working

\* No rollback: what the transaction wrote before the error stays.
rollback_skipped(committed, working) == working

\* conn.rollback()
rollback(committed, working) == committed

\* The end of a stage: ok tells whether its writes were committed.
Outcome(committed, working, failed) ==
    IF failed THEN [db |-> rollback(committed, working), ok |-> FALSE]
    ELSE [db |-> commit(committed, working), ok |-> TRUE]

NoWrite(db, ok) == [db |-> db, ok |-> ok]

(***************************************************************************)
(* The stages: each reads its file, parses it and merges in one            *)
(* transaction.  The result is [db, ok]: the store after the stage and     *)
(* whether the stage committed its writes.                                 *)
(***************************************************************************)
\* insert_1st.process_welcome_etl
process_welcome_etl(db, df_data, fault) ==
    LET p == parse_welcome(df_data)
        \* an INT age column holds the number the text denotes
        list == [i \in 1..Len(p.metadata) |->
                    IF db.schema = "v2" /\ IsIntLiteral(p.metadata[i].age)
                    THEN [p.metadata[i] EXCEPT !.age = PyInt(@)]
                    ELSE p.metadata[i]]
        a1 == p.respondents # {}
        f1 == a1 /\ fault = "respondents"
        s1 == IF a1 THEN insert_respondents(db, p.respondents) ELSE db
        a2 == Len(list) > 0
        f2 == a2 /\ (fault = "metadata" \/ metadata_error_1st(s1, list))
        s2 == IF a2 THEN [s1 EXCEPT !.metadata = upsert_metadata_1st(@, list)] ELSE s1
        f3 == fault = "commit"
        working == IF f1 THEN db ELSE IF f2 THEN s1 ELSE s2
    IN  IF ~p.ok THEN NoWrite(db, FALSE)
        ELSE Outcome(db, working, f1 \/ f2 \/ f3)

\* The merging half of process_data_etl, in insert_qpoll and in insert_2nd
\* (which has an empty metadata list and issues no metadata statement).
merge_panel(db, p, prefix, fault) ==
    LET a1 == p.respondents # {}
        f1 == a1 /\ fault = "respondents"
        s1 == IF a1 THEN insert_respondents(db, p.respondents) ELSE db
        a2 == Len(p.metadata) > 0
        f2 == a2 /\ (fault = "metadata" \/ metadata_error_qpoll(s1, p.metadata))
        s2 == IF a2 THEN [s1 EXCEPT !.metadata = upsert_metadata_qpoll(@, p.metadata)] ELSE s1
        a3 == p.respondents # {}
        f3 == a3 /\ fault = "delete"
        s3 == IF a3 THEN [s2 EXCEPT !.answers = delete_answers(@, p.respondents, prefix)] ELSE s2
        a4 == Len(p.answers) > 0
        f4 == a4 /\ fault = "insert"
        s4 == IF a4 THEN [s3 EXCEPT !.answers = insert_answers(@, p.answers)] ELSE s3
        f5 == fault = "commit"
        working == IF f1 THEN db ELSE IF f2 THEN s1 ELSE IF f3 THEN s2 ELSE IF f4 THEN s3 ELSE s4
    IN  Outcome(db, working, f1 \/ f2 \/ f3 \/ f4 \/ f5)

\* insert_qpoll.process_data_etl
process_data_etl_qpoll(db, sheet1, prefix, fault) ==
    LET p == parse_qpoll(sheet1, prefix)
    IN  IF ~p.ok THEN NoWrite(db, FALSE) ELSE merge_panel(db, p, prefix, fault)

\* insert_2nd.process_data_etl
process_data_etl_second(db, df_panel, prefix, fault) ==
    LET p == parse_second(df_panel, prefix)
    IN  IF ~p.ok THEN NoWrite(db, FALSE) ELSE merge_panel(db, p, prefix, fault)

\* The merging half of process_codebook_etl, in insert_qpoll and insert_2nd:
\* no statement is issued for an empty data_to_insert.
merge_codebooks(db, c, fault) ==
    LET a1 == DOMAIN c.codebooks # {}
        f1 == a1 /\ fault = "codebooks"
        s1 == IF a1 THEN [db EXCEPT !.codebooks = upsert_codebooks(@, c.codebooks)] ELSE db
        f2 == a1 /\ fault = "commit"
    IN  IF ~c.ok THEN NoWrite(db, FALSE)
        ELSE Outcome(db, IF f1 THEN db ELSE s1, f1 \/ f2)

\* insert_qpoll.process_codebook_etl
process_codebook_etl_qpoll(db, df_codebook, prefix, fault) ==
    merge_codebooks(db, parse_codebook_qpoll(df_codebook, prefix), fault)

\* insert_2nd.process_codebook_etl
process_codebook_etl_second(db, df_codebook, prefix, fault) ==
    merge_codebooks(db, parse_codebook_second(df_codebook, prefix), fault)

\* DROP TABLE and CREATE TABLE in place of CREATE TABLE IF NOT EXISTS.
setup_master_tables_recreated(db, shape) == [EmptyStore EXCEPT !.schema = shape]

\* setup_master_tables: CREATE TABLE IF NOT EXISTS, in the shape the calling
\* script gives the metadata table.
setup_master_tables(db, shape) == IF db.schema = "none" THEN [db EXCEPT !.schema = shape] ELSE db

\* drop_table.drop_all_tables: DROP TABLE IF EXISTS ... CASCADE, four times
drop_all_tables(db) == EmptyStore

(***************************************************************************)
(* NamespaceAllocator.  insert_2nd has the fixed PREFIX; insert_qpoll.main *)
(* derives the prefix from the file name.                                  *)
(***************************************************************************)
PREFIX == "w2_"

\* os.path.splitext(file_name)[0]: the name up to its last dot (a dot that
\* leads the name starts no extension).
splitext_root(file_name) ==
    LET dots == {i \in 2..Len(file_name) : Ch(file_name, i) = "."}
    IN  IF dots = {} THEN file_name
        ELSE SubSeq(file_name, 1, (CHOOSE i \in dots : \A j \in dots : j <= i) - 1)

qpoll_prefix(file_name) == Replace(splitext_root(file_name), "qpoll_join_", "qp") \o "_"

(***************************************************************************)
(* The input files the model draws from.  Respondents P1 and P2; the raw   *)
(* question code munhang1 with the title Q (or 1_Q); the welcome_2nd       *)
(* variable Q.                                                             *)
(***************************************************************************)
\* welcome_1st: id, gender (Q10), birth year (Q11), region (Q12_1, Q12_2)
WelcomeColumns == <<"mb_sn", "Q10", "Q11", "Q12_1", "Q12_2">>
WelcomeM == DataFrame(WelcomeColumns, << <<"P1", "M", "1984", NaN, NaN>> >>)
WelcomeF == DataFrame(WelcomeColumns, << <<"P1", "F", "39", "Seoul", "Gu">>,
                                         <<"P2", NaN, "41", "Seoul", NaN>> >>)
WelcomeRepeated == DataFrame(WelcomeColumns, << <<"P1", "M", "1984", NaN, NaN>>,
                                                <<"P1", "F", "39", "Seoul", "Gu">> >>)
WelcomeNoId == DataFrame(<<"Q10", "Q11">>, << <<"M", "1984">> >>)
WelcomeFiles == {WelcomeM, WelcomeF, WelcomeRepeated, WelcomeNoId, Unreadable}

\* qpoll workbooks, sheet 1: id, carrier, gender, age, region, one question
PanelColumns == <<"mb_sn", "gubun", "seongbyeol", "nai", "jiyeok", "munhang1", "munhang1_ETC">>
PanelTitles(title) == <<"mb_sn", "gubun", "seongbyeol", "nai", "jiyeok", title, NaN>>
PanelM == Sheet1(PanelTitles("Q"), PanelColumns,
                 << <<"P1", NaN, "nam", NaN, NaN, "1, 3", NaN>> >>)
PanelF == Sheet1(PanelTitles("Q"), PanelColumns,
                 << <<"P1", "SKT", "yeo", "1971nyeon (man 54 se)", "Seoul", "2", "etc">>,
                    <<"P2", NaN, NaN, NaN, "Seoul", "1", NaN>> >>)
PanelNested == Sheet1(PanelTitles("1_Q"), PanelColumns,
                      << <<"P1", NaN, "yeo", NaN, "Seoul", "4", NaN>> >>)
PanelNoId == Sheet1(<<"gubun", "Q">>, <<"gubun", "munhang1">>, << <<"SKT", "1">> >>)
PanelSheets == {PanelM, PanelF, PanelNested, PanelNoId, UnreadableSheet}

\* qpoll workbooks, sheet 2: title, choices
CodebookColumns == <<"seolmunjemok", "bogi1", "bogi2", "bogi3">>
CodebookAbc == DataFrame(CodebookColumns, << <<"Q", "a", "b", "c">> >>)
CodebookAd == DataFrame(CodebookColumns, << <<"Q", "a", NaN, "d">>,
                                            <<"seongbyeol", "nam", "yeo", NaN>> >>)
CodebookNested == DataFrame(CodebookColumns, << <<"1_Q", "x", NaN, NaN>> >>)
CodebookSheets == {CodebookAbc, CodebookAd, CodebookNested, Unreadable}

\* welcome_2nd codebook: variable name, question, question type
VerticalColumns == <<"byeonsumyeong", "munhang", "munhangyuhyeong">>
VerticalClean ==
    DataFrame(VerticalColumns,
              << <<"mb_sn", "id", "String">>,
                 <<"Q", "marital", "SINGLE">>, <<NaN, "1", "single">>, <<NaN, "2", "married">> >>)
VerticalStray ==
    DataFrame(VerticalColumns,
              << <<"Q", "marital", "SINGLE">>, <<NaN, "1", "single">>,
                 <<"2", "married", NaN>>, <<NaN, "3", "other">> >>)
VerticalCodebooks == {VerticalClean, VerticalStray, Unreadable}

\* welcome_2nd data
SecondMulti == DataFrame(<<"mb_sn", "Q">>, << <<"P1", "1, 2">> >>)
SecondSingle == DataFrame(<<"mb_sn", "Q">>, << <<"P1", "3">>, <<"P2", NaN>> >>)
SecondNoId == DataFrame(<<"Q">>, << <<"1">> >>)
SecondFiles == {SecondMulti, SecondSingle, SecondNoId, Unreadable}

(***************************************************************************)
(* INPUT_FOLDER: the welcome_1st file, the qpoll workbooks in the order    *)
(* os.listdir gives them, and the two welcome_2nd files.                   *)
(***************************************************************************)
Workbook(file_name, sheet1, sheet2) ==
    [file_name |-> file_name, sheet1 |-> sheet1, sheet2 |-> sheet2]

Folder(welcome, workbooks, codebook2, data2) ==
    [welcome |-> welcome, workbooks |-> workbooks, codebook2 |-> codebook2, data2 |-> data2]

\* How many qpoll workbooks the folder holds at most
MaxFiles == 2

\* The folders a behaviour may run on; the files stay as they are during it.
InputFolders ==
    << Folder(WelcomeM,
              << Workbook("qpoll_join_1.xlsx", PanelM, CodebookAbc),
                 Workbook("qpoll_join_11.xlsx", PanelF, CodebookAd) >>,
              VerticalClean, SecondMulti),
       Folder(WelcomeF,
              << Workbook("qpoll_join_11.xlsx", PanelM, CodebookAbc),
                 Workbook("qpoll_join_1.xlsx", PanelF, CodebookAd) >>,
              VerticalStray, SecondSingle),
       Folder(WelcomeRepeated,
              << Workbook("qpoll_join_1.xlsx", PanelNoId, Unreadable) >>,
              Unreadable, SecondNoId),
       Folder(WelcomeM,
              << Workbook("qpoll_join_1_1.xlsx", PanelM, CodebookAbc),
                 Workbook("qpoll_join_1.xlsx", PanelNested, CodebookNested) >>,
              VerticalClean, SecondSingle),
       Folder(WelcomeF,
              << Workbook("qpoll_join_1.xlsx", PanelF, CodebookAbc),
                 Workbook("qpoll_join_11.xlsx", PanelM, CodebookAd),
                 Workbook("qpoll_join_1_1.xlsx", UnreadableSheet, CodebookNested) >>,
              VerticalClean, SecondMulti) >>

Folders == {i \in 1..Len(InputFolders) : Len(InputFolders[i].workbooks) <= MaxFiles}

(***************************************************************************)
(* State.  The four tables and the shape of the metadata table (db); the   *)
(* input folder (which of InputFolders); the calls the entry point in      *)
(* progress still has to make (queue); what the last call was and whether  *)
(* it committed (last); and, for the runs of single functions on inputs of *)
(* their own (SpecFunctions below), the function applied last with its     *)
(* arguments and its result (applied).                                     *)
(***************************************************************************)
VARIABLES schema, respondents, metadata, codebooks, answers, folder, queue, last, applied


vars == <<schema, respondents, metadata, codebooks, answers, folder, queue, last, applied>>
tables == <<schema, respondents, metadata, codebooks, answers>>

db == Store(schema, respondents, metadata, codebooks, answers)
INPUT_FOLDER == InputFolders[folder]

Write(new) ==
    /\ schema' = new.schema
    /\ respondents' = new.respondents
    /\ metadata' = new.metadata
    /\ codebooks' = new.codebooks
    /\ answers' = new.answers

Step(script, op, file) == [script |-> script, op |-> op, file |-> file]
Last(op, file, ok) == [op |-> op, file |-> file, ok |-> ok]
Applied(fn, args, result) == [fn |-> fn, args |-> args, result |-> result]
NotApplied == Applied("none", <<>>, <<>>)

Init ==
    /\ schema = "none"
    /\ respondents = {}
    /\ metadata = NoMetadata
    /\ codebooks = NoCodebooks
    /\ answers = EmptyBag
    /\ folder \in Folders
    /\ queue = <<>>
    /\ last = Last("none", "", TRUE)
    /\ applied = NotApplied

(***************************************************************************)
(* The entry points.  Each main is the list of calls it makes; the qpoll   *)
(* main makes its codebook calls for all workbooks before its data calls.  *)
(***************************************************************************)
main_1st == <<Step("insert_1st", "setup", ""), Step("insert_1st", "welcome", "")>>

main_qpoll(workbooks) ==
    <<Step("insert_qpoll", "setup", "")>>
    \o [i \in 1..Len(workbooks) |-> Step("insert_qpoll", "codebook", workbooks[i].file_name)]
    \o [i \in 1..Len(workbooks) |-> Step("insert_qpoll", "data", workbooks[i].file_name)]

main_2nd == <<Step("insert_2nd", "setup", ""), Step("insert_2nd", "codebook", ""),
              Step("insert_2nd", "data", "")>>

insert_all(workbooks) ==
    <<Step("insert_all", "drop", "")>> \o main_1st \o main_qpoll(workbooks) \o main_2nd

Start(steps) ==
    /\ queue = <<>>
    /\ queue' = steps
    /\ UNCHANGED <<tables, folder, last, applied>>

RunInsertAll == Start(insert_all(INPUT_FOLDER.workbooks))
RunInsert1st == Start(main_1st)
RunInsertQpoll == Start(main_qpoll(INPUT_FOLDER.workbooks))
RunInsert2nd == Start(main_2nd)
RunDropTable == Start(<<Step("drop_table", "drop", "")>>)

(***************************************************************************)
(* The calls.  What follows a call: a stage's return value is ignored and  *)
(* the next call is made; insert_1st's setup re-raises its error, which    *)
(* ends the program; the other two mains return when their setup fails.    *)
(***************************************************************************)
RECURSIVE SkipScript(_, _)
SkipScript(steps, script) ==
    IF Len(steps) = 0 \/ Head(steps).script # script THEN steps
    ELSE SkipScript(Tail(steps), script)

\* The run given up at the first call that fails.
NextQueue_abort(steps, ok) == IF ok THEN Tail(steps) ELSE <<>>

NextQueue(steps, ok) ==
    LET step == Head(steps)
    IN  IF step.op = "setup" /\ ~ok
        THEN IF step.script = "insert_1st" THEN <<>> ELSE SkipScript(steps, step.script)
        ELSE Tail(steps)

Call(script, op) == queue # <<>> /\ Head(queue).script = script /\ Head(queue).op = op

Return(result) ==
    /\ Write(result.db)
    /\ queue' = NextQueue(queue, result.ok)
    /\ last' = Last(Head(queue).script \o "." \o Head(queue).op, Head(queue).file, result.ok)
    /\ UNCHANGED <<folder, applied>>

WorkbookNamed(file_name) ==
    LET i == CHOOSE i \in 1..Len(INPUT_FOLDER.workbooks) : INPUT_FOLDER.workbooks[i].file_name = file_name
    IN  INPUT_FOLDER.workbooks[i]

\* setup_master_tables of the three scripts
setup_call(committed, shape, fault) ==
    IF fault = "setup" THEN [db |-> committed, ok |-> FALSE]
    ELSE [db |-> setup_master_tables(committed, shape), ok |-> TRUE]

DropAllTables ==
    /\ queue # <<>> /\ Head(queue).op = "drop"
    /\ Return([db |-> drop_all_tables(db), ok |-> TRUE])

SetupMasterTables1st ==
    /\ Call("insert_1st", "setup")
    /\ \E fault \in {"none", "setup"} : Return(setup_call(db, "v1", fault))

SetupMasterTablesQpoll ==
    /\ Call("insert_qpoll", "setup")
    /\ \E fault \in {"none", "setup"} : Return(setup_call(db, "v2", fault))

SetupMasterTables2nd ==
    /\ Call("insert_2nd", "setup")
    /\ \E fault \in {"none", "setup"} : Return(setup_call(db, "v1", fault))

ProcessWelcomeEtl ==
    /\ Call("insert_1st", "welcome")
    /\ \E fault \in Faults : Return(process_welcome_etl(db, INPUT_FOLDER.welcome, fault))

QpollCodebookEtl ==
    /\ Call("insert_qpoll", "codebook")
    /\ \E fault \in Faults :
          LET file_name == Head(queue).file
          IN  Return(process_codebook_etl_qpoll(db, WorkbookNamed(file_name).sheet2,
                                                qpoll_prefix(file_name), fault))

QpollDataEtl ==
    /\ Call("insert_qpoll", "data")
    /\ \E fault \in Faults :
          LET file_name == Head(queue).file
          IN  Return(process_data_etl_qpoll(db, WorkbookNamed(file_name).sheet1,
                                            qpoll_prefix(file_name), fault))

SecondCodebookEtl ==
    /\ Call("insert_2nd", "codebook")
    /\ \E fault \in Faults : Return(process_codebook_etl_second(db, INPUT_FOLDER.codebook2, PREFIX, fault))

SecondDataEtl ==
    /\ Call("insert_2nd", "data")
    /\ \E fault \in Faults : Return(process_data_etl_second(db, INPUT_FOLDER.data2, PREFIX, fault))

Next ==
    \/ RunInsertAll
    \/ RunInsert1st
    \/ RunInsertQpoll
    \/ RunInsert2nd
    \/ RunDropTable
    \/ DropAllTables
    \/ SetupMasterTables1st
    \/ SetupMasterTablesQpoll
    \/ SetupMasterTables2nd
    \/ ProcessWelcomeEtl
    \/ QpollCodebookEtl
    \/ QpollDataEtl
    \/ SecondCodebookEtl
    \/ SecondDataEtl

Spec == Init /\ [][Next]_vars

(***************************************************************************)
(* Runs of single functions.  SpecFunctions applies a function of the      *)
(* scripts to an input drawn from a bounded set and records the            *)
(* application, one application in a behaviour (but the runs of whole      *)
(* scripts, which follow one another); the tables are not touched.         *)
(***************************************************************************)
SeqsUpTo(S, n) == UNION {[1..k -> S] : k \in 0..n}

\* No function has run yet, and a run leaves the tables alone.
Ready ==
    /\ applied = NotApplied
    /\ UNCHANGED <<tables, folder, queue, last>>

\* Row 1 of sheet 1: at most MaxTitles cells, each an empty cell, a title
\* (with blanks or a line break around it), a placeholder or a cell of blanks.
MaxTitles == 5
TitleCells == {NaN, "Q1", " Q\n2\n", "Unnamed: 3", " "}

\* insert_qpoll.process_data_etl, the loop that builds title_columns
ApplyForwardFill ==
    /\ Ready
    /\ \E title_values \in SeqsUpTo(TitleCells, MaxTitles) :
          applied' = Applied("forward_fill", title_values, forward_fill(title_values, ""))

\* One answer cell of one data row, of respondent P1 in the column of
\* question Q, as insert_qpoll (the column munhang1 under the title Q) and
\* as insert_2nd unpivot it: the tuples appended to answers_to_insert.
AnswerCells ==
    {NaN, " ", "1, 3, 4", "1,3,4", "5", " 5 ", ",", "1,,2", " , 7 ,", "a b, c", " nan ", "1, nan"}

row_answers(script, raw_answer_value) ==
    IF script = "insert_qpoll"
    THEN qpoll_row_answers(<<"mb_sn", "munhang1">>, forward_fill(<<"mb_sn", "Q">>, ""),
                           <<"P1", raw_answer_value>>, "P1", qpoll_prefix("qpoll_join_1.xlsx"), 1)
    ELSE second_row_answers(<<"mb_sn", "Q">>, <<"P1", raw_answer_value>>, "P1", PREFIX, 1)

ApplyRowAnswers ==
    /\ Ready
    /\ \E script \in {"insert_qpoll", "insert_2nd"}, raw_answer_value \in AnswerCells :
          applied' = Applied("row_answers", <<script, raw_answer_value>>, row_answers(script, raw_answer_value))

\* A data file of one row with the given id cell, ingested by the data stage
\* of its script into tables the script has just created: the store after it.
IdCells == {NaN, " ", "P1", " P1 ", " nan ", "NAN"}

row_file(script, id_cell) ==
    IF script = "insert_1st"
    THEN DataFrame(WelcomeColumns, << <<id_cell, "M", "1984", NaN, NaN>> >>)
    ELSE IF script = "insert_qpoll"
    THEN Sheet1(PanelTitles("Q"), PanelColumns,
                << <<id_cell, "SKT", "nam", NaN, "Seoul", "1", NaN>> >>)
    ELSE DataFrame(<<"mb_sn", "Q">>, << <<id_cell, "1">> >>)

ingest_row(script, id_cell) ==
    IF script = "insert_1st"
    THEN process_welcome_etl(setup_master_tables(EmptyStore, "v1"),
                             row_file(script, id_cell), "none").db
    ELSE IF script = "insert_qpoll"
    THEN process_data_etl_qpoll(setup_master_tables(EmptyStore, "v2"), row_file(script, id_cell),
                                qpoll_prefix("qpoll_join_1.xlsx"), "none").db
    ELSE process_data_etl_second(setup_master_tables(EmptyStore, "v1"),
                                 row_file(script, id_cell), PREFIX, "none").db

ApplyIngestRow ==
    /\ Ready
    /\ \E script \in {"insert_1st", "insert_qpoll", "insert_2nd"}, id_cell \in IdCells :
          applied' = Applied("ingest_row", <<script, id_cell>>, ingest_row(script, id_cell))

\* A respondents table of at most two rows, vectors assigned or not, and
\* the ids of a file.
RespondentTables ==
    {rows \in SUBSET {RespondentRow(id, v) : id \in {"P1", "P2"}, v \in {NULL, "[0.1, 0.2]"}} :
        \A r1, r2 \in rows : r1.mb_sn = r2.mb_sn => r1 = r2}

ApplyRespondentsQuery ==
    /\ Ready
    /\ \E rows \in RespondentTables, ids \in SUBSET {"P1", "P2", "P3"} :
          applied' = Applied("respondents_query", <<rows, ids>>, respondents_query(rows, ids))

\* Fault-free runs of the three scripts on the input folder, one after the
\* other in any order, at most MaxRuns of them, from empty tables:
\* st = [db, seen] is the store and the ids of the data stages that
\* committed so far.
MaxRuns == 3

Ran(d, ids) == [db |-> d, seen |-> ids]

RECURSIVE run_qpoll_codebooks(_, _)
run_qpoll_codebooks(d, workbooks) ==
    IF Len(workbooks) = 0 THEN d
    ELSE run_qpoll_codebooks(
             process_codebook_etl_qpoll(d, Head(workbooks).sheet2,
                                        qpoll_prefix(Head(workbooks).file_name), "none").db,
             Tail(workbooks))

\* The store after a data stage and the ids seen so far: those of the
\* stage's file are seen when the stage commits.
Seen(st, r, ids) == Ran(r.db, IF r.ok THEN st.seen \cup ids ELSE st.seen)

RECURSIVE run_qpoll_data(_, _)
run_qpoll_data(st, workbooks) ==
    IF Len(workbooks) = 0 THEN st
    ELSE run_qpoll_data(
             Seen(st,
                  process_data_etl_qpoll(st.db, Head(workbooks).sheet1,
                                         qpoll_prefix(Head(workbooks).file_name), "none"),
                  parse_qpoll(Head(workbooks).sheet1,
                              qpoll_prefix(Head(workbooks).file_name)).respondents),
             Tail(workbooks))

\* insert_qpoll.main on the workbooks as listed: setup, pass 1, pass 2
run_qpoll(st, workbooks) ==
    run_qpoll_data(
        Ran(run_qpoll_codebooks(setup_master_tables(st.db, "v2"), workbooks), st.seen),
        workbooks)

run_script(st, script) ==
    IF script = "insert_1st"
    THEN Seen(st,
              process_welcome_etl(setup_master_tables(st.db, "v1"), INPUT_FOLDER.welcome, "none"),
              parse_welcome(INPUT_FOLDER.welcome).respondents)
    ELSE IF script = "insert_qpoll"
    THEN run_qpoll(st, INPUT_FOLDER.workbooks)
    ELSE Seen(st,
              process_data_etl_second(
                  process_codebook_etl_second(setup_master_tables(st.db, "v1"),
                                              INPUT_FOLDER.codebook2, PREFIX, "none").db,
                  INPUT_FOLDER.data2, PREFIX, "none"),
              parse_second(INPUT_FOLDER.data2, PREFIX).respondents)

\* One more script run after those already run: applied.args are the scripts
\* run so far, applied.result is st.
ApplyRunScript ==
    /\ applied.fn \in {"none", "run_scripts"}
    /\ Len(applied.args) < MaxRuns
    /\ \E script \in {"insert_1st", "insert_qpoll", "insert_2nd"} :
          LET st == IF applied.fn = "none" THEN Ran(EmptyStore, {}) ELSE applied.result
          IN  applied' = Applied("run_scripts", Append(applied.args, script), run_script(st, script))
    /\ UNCHANGED <<tables, folder, queue, last>>

\* os.listdir(INPUT_FOLDER) returns the names in arbitrary order and
\* insert_qpoll.main does not sort them: the orders a listing may have.
listdir(workbooks) ==
    LET n == Len(workbooks)
    IN  {[i \in 1..n |-> workbooks[q[i]]] :
            q \in {q \in [1..n -> 1..n] : \A i, j \in 1..n : q[i] = q[j] => i = j}}

\* insert_qpoll.main run twice from the same store (that of the script runs
\* made so far) on the same input folder, on a listing of its own each time.
ApplyQpollMain ==
    /\ applied.fn \in {"none", "run_scripts"}
    /\ \E listing1, listing2 \in listdir(INPUT_FOLDER.workbooks) :
          LET st == IF applied.fn = "none" THEN Ran(EmptyStore, {}) ELSE applied.result
          IN  applied' = Applied("qpoll_main", <<listing1, listing2>>,
                                 <<run_qpoll(st, listing1).db, run_qpoll(st, listing2).db>>)
    /\ UNCHANGED <<tables, folder, queue, last>>

\* Codebook stages one after the other, from an empty table: each of a
\* codebook file, of a qpoll workbook named qpoll_join_1.xlsx or of
\* welcome_2nd.
MaxUpserts == 3
CodebookFiles ==
    {<<"insert_qpoll", sheet2>> : sheet2 \in CodebookSheets \ {Unreadable}}
    \cup {<<"insert_2nd", df_codebook>> : df_codebook \in VerticalCodebooks \ {Unreadable}}

data_to_insert(file) ==
    IF file[1] = "insert_qpoll"
    THEN parse_codebook_qpoll(file[2], qpoll_prefix("qpoll_join_1.xlsx")).codebooks
    ELSE parse_codebook_second(file[2], PREFIX).codebooks

RECURSIVE codebook_stages(_, _)
codebook_stages(d, files) ==
    IF Len(files) = 0 THEN d
    ELSE codebook_stages(
             IF Head(files)[1] = "insert_qpoll"
             THEN process_codebook_etl_qpoll(d, Head(files)[2],
                                             qpoll_prefix("qpoll_join_1.xlsx"), "none").db
             ELSE process_codebook_etl_second(d, Head(files)[2], PREFIX, "none").db,
             Tail(files))

ApplyCodebookStages ==
    /\ Ready
    /\ \E files \in SeqsUpTo(CodebookFiles, MaxUpserts) :
          applied' = Applied("codebook_stages", files,
              codebook_stages(setup_master_tables(EmptyStore, "v2"), files).codebooks)

(***************************************************************************)
(* Vector columns.  embedding.py adds q_vector to codebooks and a_vector   *)
(* to answers (setup_vector_columns); a row written while its table has no *)
(* such column has no vector, NULL here.  The statements of the ingestion  *)
(* name the columns they write: mb_sn; codebook_id and codebook_data;      *)
(* mb_sn, question_id and answer_value.                                    *)
(***************************************************************************)
CodebookRow(codebook_id, codebook_data, q_vector) ==
    [codebook_id |-> codebook_id, codebook_data |-> codebook_data, q_vector |-> q_vector]

AnswerVectorRow(answer_id, answer, a_vector) ==
    [answer_id |-> answer_id, answer |-> answer, a_vector |-> a_vector]

\* INSERT OR REPLACE in place of ON CONFLICT DO UPDATE SET codebook_data:
\* the row that is hit is written anew, its vector with the column default.
insert_query_replacing(rows, excluded) ==
    {r \in rows : r.codebook_id \notin DOMAIN excluded}
    \cup {CodebookRow(id, excluded[id], NULL) : id \in DOMAIN excluded}

\* insert_query: INSERT INTO codebooks (codebook_id, codebook_data) VALUES
\* ... ON CONFLICT (codebook_id) DO UPDATE SET codebook_data =
\* EXCLUDED.codebook_data
insert_query(rows, excluded) ==
    {IF r.codebook_id \in DOMAIN excluded
     THEN [r EXCEPT !.codebook_data = excluded[r.codebook_id]]
     ELSE r : r \in rows}
    \cup {CodebookRow(id, excluded[id], NULL) :
             id \in {i \in DOMAIN excluded : \A r \in rows : r.codebook_id # i}}

\* answer_id SERIAL: the ids that follow those given out so far
nextval(rows, i) ==
    LET used == {r.answer_id : r \in rows}
    IN  (IF used = {} THEN 0 ELSE CHOOSE m \in used : \A u \in used : u <= m) + i

\* DELETE FROM answers WHERE mb_sn = ANY(ids) AND question_id LIKE prefix%,
\* then answers_query: INSERT INTO answers (mb_sn, question_id,
\* answer_value) VALUES ...
answers_query(rows, ids, prefix, answers_to_insert) ==
    LET keep == {r \in rows : ~(r.answer.mb_sn \in ids /\ LIKE(r.answer.question_id, prefix \o "%"))}
    IN  keep \cup {AnswerVectorRow(nextval(rows, i), answers_to_insert[i], NULL) :
                      i \in 1..Len(answers_to_insert)}

\* model.get_embeddings: the vector of a text
get_embeddings(text) == "[" \o text \o "]"

\* embedding.embed_codebooks: SELECT ... WHERE (codebook_data ->> 'q_title')
\* IS NOT NULL AND q_vector IS NULL, then UPDATE codebooks SET q_vector
embed_codebooks(rows) ==
    {IF r.codebook_data.q_title # NULL /\ r.q_vector = NULL
     THEN [r EXCEPT !.q_vector = get_embeddings(r.codebook_data.q_title)]
     ELSE r : r \in rows}

\* A codebooks table of at most two rows, with vectors assigned or not
CodebookTables ==
    LET stored == {CodebookObj("qp1_Q", "Q before", <<Choice("1", "z")>>),
                   CodebookObj("w2_Q", "Q", <<>>)}
    IN  {rows \in SUBSET {CodebookRow(c.codebook_id, c, v) : c \in stored, v \in {NULL, "[0.1, 0.2]"}} :
            \A r1, r2 \in rows : r1.codebook_id = r2.codebook_id => r1 = r2}

\* An answers table of at most two rows, with vectors assigned or not
AnswerTables ==
    LET stored == {<<1, AnswerRow("P1", "qp1_Q", "2")>>, <<2, AnswerRow("P1", "w2_Q", "2")>>,
                   <<3, AnswerRow("P2", "qp1_Q", "1")>>}
    IN  {rows \in SUBSET {AnswerVectorRow(a[1], a[2], v) : a \in stored, v \in {NULL, "[0.1, 0.2]"}} :
            /\ Cardinality(rows) <= 2
            /\ \A r1, r2 \in rows : r1.answer_id = r2.answer_id => r1 = r2}

ApplyInsertQuery ==
    /\ Ready
    /\ \E rows \in CodebookTables, file \in CodebookFiles :
          applied' = Applied("insert_query", <<rows, data_to_insert(file)>>,
                             insert_query(rows, data_to_insert(file)))

ApplyAnswersQuery ==
    /\ Ready
    /\ \E rows \in AnswerTables, raw_answer_value \in {NaN, "1, 3", "2"} :
          applied' = Applied("answers_query",
                             <<rows, row_answers("insert_qpoll", raw_answer_value)>>,
                             answers_query(rows, {"P1"}, "qp1_",
                                           row_answers("insert_qpoll", raw_answer_value)))

ApplyEmbedCodebooks ==
    /\ Ready
    /\ \E rows \in CodebookTables :
          applied' = Applied("embed_codebooks", <<rows>>, embed_codebooks(rows))

(***************************************************************************)
(* The metadata filters of the search: a list of (column, operator, value) *)
(* triples is turned into a WHERE clause with %s placeholders and the list *)
(* of parameters, by build_where (NEWLangc.py, LLMlangchan.py) and by      *)
(* build_metadata_where_clause (makeSQL.py).                               *)
(***************************************************************************)
Filter(column, operator, value) == [column |-> column, operator |-> operator, value |-> value]

Where(clause, params) == [clause |-> clause, params |-> params]

ALLOWED_COLS == {"gender", "age", "birth_year", "region", "mobile_carrier"}
ALLOWED_OPS == {"=", "!=", "LIKE", ">", ">=", "<", "<="}
ALLOWED_OPERATORS == {"=", "!=", "LIKE", ">", ">=", "<", "<="}

\* str.isalnum(): non-empty, letters and digits only
IsAlnumCh(c) ==
    \/ IsDigitCh(c)
    \/ \E i \in 1..Len(LowerChars) : Ch(LowerChars, i) = c \/ Ch(UpperChars, i) = c

isalnum(s) == Len(s) > 0 /\ \A i \in 1..Len(s) : IsAlnumCh(Ch(s, i))

\* c in s, for a character c
InStr(c, s) == \E i \in 1..Len(s) : Ch(s, i) = c

\* sep.join(parts)
RECURSIVE join(_, _)
join(sep, parts) ==
    IF Len(parts) = 0 THEN ""
    ELSE IF Len(parts) = 1 THEN Head(parts)
    ELSE Head(parts) \o sep \o join(sep, Tail(parts))

\* f"{c} {op} %s"
condition(column, operator) == column \o " " \o operator \o " %s"

\* build_where
build_where(filters) ==
    LET kept == SelectSeq(filters, LAMBDA f : ~(f.column \notin ALLOWED_COLS \/ f.operator \notin ALLOWED_OPS))
        conds == [i \in 1..Len(kept) |-> condition(kept[i].column, kept[i].operator)]
        params == [i \in 1..Len(kept) |-> kept[i].value]
    IN  IF Len(conds) > 0 THEN Where(" WHERE " \o join(" AND ", conds), params) ELSE Where("", <<>>)

\* grouped_filters: the columns in the order of their first filter
RECURSIVE grouped_filters_keys(_, _)
grouped_filters_keys(filters, keys) ==
    IF Len(filters) = 0 THEN keys
    ELSE grouped_filters_keys(Tail(filters),
                              IF InSeq(Head(filters).column, keys) THEN keys
                              ELSE Append(keys, Head(filters).column))

\* for column, filters in grouped_filters.items(): all_conditions and
\* all_parameters
RECURSIVE where_groups(_, _)
where_groups(keys, grouped) ==
    IF Len(keys) = 0 THEN Where(<<>>, <<>>)
    ELSE LET column == Head(keys)
             filters == SelectSeq(grouped, LAMBDA f : f.column = column)
             joiner == IF \A i \in 1..Len(filters) : filters[i].operator \in {"=", "!=", "LIKE"}
                       THEN " OR " ELSE " AND "
             kept == SelectSeq(filters, LAMBDA f : f.operator \in ALLOWED_OPERATORS)
             column_conditions == [i \in 1..Len(kept) |-> condition(column, kept[i].operator)]
             rest == where_groups(Tail(keys), grouped)
         IN  Where((IF Len(column_conditions) > 0
                    THEN <<"(" \o join(joiner, column_conditions) \o ")">> ELSE <<>>) \o rest.clause,
                   [i \in 1..Len(kept) |-> kept[i].value] \o rest.params)

\* makeSQL.build_metadata_where_clause
build_metadata_where_clause(filters_list) ==
    LET grouped == SelectSeq(filters_list,
                             LAMBDA f : ~(~isalnum(f.column) /\ ~InStr("_", f.column)))
        all == where_groups(grouped_filters_keys(grouped, <<>>), grouped)
    IN  IF Len(filters_list) = 0 \/ Len(all.clause) = 0 THEN Where("", <<>>)
        ELSE Where("WHERE " \o join(" AND ", all.clause), all.params)

\* Filter lists of at most MaxFilters filters: on metadata columns and on
\* others, with operators of the list and others.
MaxFilters == 3

Filters ==
    {Filter("age", ">=", "40"), Filter("age", "<", "50"), Filter("age", "=", "45"),
     Filter("region", "LIKE", "Seoul%"), Filter("region", "IN", "(1)"),
     Filter("pw_hash", "=", "x"), Filter("a b", "=", "y"),
     Filter("mb_sn; --", "=", "z"), Filter("gender", "; DROP", "w")}

ApplyBuildWhere ==
    /\ Ready
    /\ \E filters \in SeqsUpTo(Filters, MaxFilters) :
          applied' = Applied("build_where", filters, build_where(filters))

ApplyBuildMetadataWhereClause ==
    /\ Ready
    /\ \E filters_list \in SeqsUpTo(Filters, MaxFilters) :
          applied' = Applied("build_metadata_where_clause", filters_list,
                             build_metadata_where_clause(filters_list))

\* Vertical codebook files of at most MaxRows rows: question-start rows (one
\* without a question text), choice rows, rows the choice test rejects (a
\* code that is no number, a type word in the place of the label), a row
\* whose variable cell holds blanks, and the empty row.
MaxRows == 4
VerticalRows ==
    {<<"Q1", "marital", "SINGLE">>, <<" Q2 ", NaN, "Numeric">>,
     <<NaN, "1", "single">>, <<NaN, " 2 ", " married ">>,
     <<NaN, "x", "other">>, <<NaN, "3", "SINGLE">>, <<" ", "4", "none">>, <<NaN, NaN, NaN>>}

\* insert_2nd.process_codebook_etl, the loop that builds codebook_objects
ApplyVerticalObjects ==
    /\ Ready
    /\ \E rows \in SeqsUpTo(VerticalRows, MaxRows) :
          applied' = Applied("vertical_objects", rows, vertical_objects(rows, PREFIX))

\* Sheet 2 of a qpoll workbook, of at most MaxSheetRows rows: a title cell
\* (a title, one with a line break, an empty cell, blanks, a demographic
\* name, an id name) and the choice cells bogi1, bogi2, bogi3, bogi10 and,
\* beyond the ten the parser reads, bogi11.
MaxSheetRows == 3
HorizontalColumns == <<"seolmunjemok", "bogi1", "bogi2", "bogi3", "bogi10", "bogi11">>
HorizontalRows ==
    {<<"Q1", "a", "b", "c", NaN, NaN>>, <<"Q1", "a", NaN, " d ", "j", "k">>,
     <<" Q\n2 ", NaN, " ", "c", NaN, NaN>>, <<NaN, "a", "b", NaN, NaN, NaN>>,
     <<" ", "a", NaN, NaN, NaN, NaN>>, <<"seongbyeol", "nam", "yeo", NaN, NaN, NaN>>,
     <<"mb_sn", NaN, NaN, NaN, NaN, NaN>>, <<"Q3", NaN, NaN, NaN, NaN, NaN>>}

\* insert_qpoll.process_codebook_etl, the loop that builds codebook_dict
ApplyParseCodebookQpoll ==
    /\ Ready
    /\ \E rows \in SeqsUpTo(HorizontalRows, MaxSheetRows) :
          applied' = Applied("parse_codebook_qpoll", rows,
                             parse_codebook_qpoll(DataFrame(HorizontalColumns, rows), "qp1_").codebooks)

\* Sheet 1 of a qpoll workbook with the id, a question column left of every
\* title (munhang0 in the first two title rows), two question columns and
\* the free-text column of the second; the title row has a title for each
\* question, or one merged title over both, or titles everywhere; at most
\* MaxPanelRows data rows of respondents P1 and P2.
MaxPanelRows == 2
QpollColumns == <<"mb_sn", "munhang0", "munhang1", "munhang2", "munhang2_ETC">>
QpollTitleRows ==
    {<<NaN, NaN, "Q1", "Q2", NaN>>, <<NaN, NaN, "Q1", NaN, NaN>>,
     <<"id", "Q0", "Q1", "Q2", "Unnamed: 4">>}
QpollDataRows ==
    {<<mb_sn, c0, c1, "3", c_etc>> :
        mb_sn \in {"P1", "P2"}, c0 \in {NaN, "zz"}, c1 \in {NaN, "1, 3"}, c_etc \in {NaN, "etc"}}

\* insert_qpoll.process_data_etl, up to answers_to_insert
ApplyParseQpoll ==
    /\ Ready
    /\ \E titles \in QpollTitleRows, rows \in SeqsUpTo(QpollDataRows, MaxPanelRows) :
          applied' = Applied("parse_qpoll", <<titles, rows>>,
                             parse_qpoll(Sheet1(titles, QpollColumns, rows), "qp1_").answers)

\* Data files of one row whose header has some of the id candidates, in any
\* order, and then one more column; the cell under a candidate names it.
IdHeaders ==
    UNION {{h \in [1..n -> {ID_CANDIDATES[i] : i \in 1..Len(ID_CANDIDATES)}] :
               \A i, j \in 1..n : h[i] = h[j] => i = j} : n \in 0..Len(ID_CANDIDATES)}

IdCellOf(column) == "P_" \o column

\* The data stage of a script on such a file, on tables the script has just
\* created: the store after it and whether it committed.
ingest_file(script, header) ==
    LET cells == [i \in 1..Len(header) |-> IdCellOf(header[i])]
    IN  IF script = "insert_1st"
        THEN process_welcome_etl(setup_master_tables(EmptyStore, "v1"),
                                 DataFrame(header \o <<"Q10">>, <<cells \o <<"M">>>>), "none")
        ELSE IF script = "insert_qpoll"
        THEN process_data_etl_qpoll(setup_master_tables(EmptyStore, "v2"),
                                    Sheet1(header \o <<"Q">>, header \o <<"munhang1">>,
                                           <<cells \o <<"1">>>>),
                                    qpoll_prefix("qpoll_join_1.xlsx"), "none")
        ELSE process_data_etl_second(setup_master_tables(EmptyStore, "v1"),
                                     DataFrame(header \o <<"Q">>, <<cells \o <<"1">>>>),
                                     PREFIX, "none")

ApplyIngestFile ==
    /\ Ready
    /\ \E script \in {"insert_1st", "insert_qpoll", "insert_2nd"}, header \in IdHeaders :
          applied' = Applied("ingest_file", <<script, header>>, ingest_file(script, header))

InitFunctions == Init

NextFunctions ==
    \/ ApplyForwardFill
    \/ ApplyRowAnswers
    \/ ApplyIngestRow
    \/ ApplyRespondentsQuery
    \/ ApplyRunScript
    \/ ApplyQpollMain
    \/ ApplyCodebookStages
    \/ ApplyInsertQuery
    \/ ApplyAnswersQuery
    \/ ApplyEmbedCodebooks
    \/ ApplyBuildWhere
    \/ ApplyBuildMetadataWhereClause
    \/ ApplyVerticalObjects
    \/ ApplyParseCodebookQpoll
    \/ ApplyParseQpoll
    \/ ApplyIngestFile

SpecFunctions == InitFunctions /\ [][NextFunctions]_vars

(***************************************************************************)
(* One fault-free ingestion of a source from the input folder, as its main *)
(* makes it: the setup, the codebook stage, the data stage.                *)
(***************************************************************************)
ingest_1st(d) ==
    process_welcome_etl(setup_master_tables(d, "v1"), INPUT_FOLDER.welcome, "none").db

ingest_qpoll(d, workbook) ==
    LET prefix == qpoll_prefix(workbook.file_name)
        s0 == setup_master_tables(d, "v2")
        s1 == process_codebook_etl_qpoll(s0, workbook.sheet2, prefix, "none").db
    IN  process_data_etl_qpoll(s1, workbook.sheet1, prefix, "none").db

ingest_2nd(d) ==
    LET s0 == setup_master_tables(d, "v1")
        s1 == process_codebook_etl_second(s0, INPUT_FOLDER.codebook2, PREFIX, "none").db
    IN  process_data_etl_second(s1, INPUT_FOLDER.data2, PREFIX, "none").db

Workbooks == {INPUT_FOLDER.workbooks[i] : i \in 1..Len(INPUT_FOLDER.workbooks)}

(***************************************************************************)
(* C1: idempotence of re-ingestion.  From every reachable store, for each  *)
(* of the three source kinds, ingesting the source from unchanged files    *)
(* twice in a row leaves the four tables with the same rows and content as *)
(* ingesting it once.  (The stores between runs are all the stores: every  *)
(* call of a run can be the last one that commits.)                        *)
(***************************************************************************)
C1_Idempotent ==
    queue = <<>> =>
        /\ LET once == ingest_1st(db) IN ingest_1st(once) = once
        /\ \A w \in Workbooks : LET once == ingest_qpoll(db, w) IN ingest_qpoll(once, w) = once
        /\ LET once == ingest_2nd(db) IN ingest_2nd(once) = once

\* The store right after a committed data stage of a qpoll workbook that
\* had been ingested before (its answers are stored, re-ingestion changed
\* nothing), and likewise for welcome_2nd and welcome_1st.
C1_Reingested ==
    /\ last.ok
    /\ \/ /\ last.op = "insert_qpoll.data"
          /\ \E r \in DOMAIN answers : StartsWith(r.question_id, qpoll_prefix(last.file))
          /\ ingest_qpoll(db, WorkbookNamed(last.file)) = db
       \/ /\ last.op = "insert_2nd.data"
          /\ \E r \in DOMAIN answers : StartsWith(r.question_id, PREFIX)
          /\ ingest_2nd(db) = db

(***************************************************************************)
(* The call about to be made, and what it works on.                        *)
(***************************************************************************)
DataCall == queue # <<>> /\ Head(queue).op = "data"
MetadataCall == queue # <<>> /\ Head(queue).op \in {"welcome", "data"}
StageCall == queue # <<>> /\ Head(queue).op \in {"welcome", "codebook", "data"}

\* The prefix the allocator gives the source of the call
CallPrefix ==
    IF Head(queue).script = "insert_2nd" THEN PREFIX ELSE qpoll_prefix(Head(queue).file)

\* The prefixes of the sources of the input folder
SourcePrefixes == {PREFIX} \cup {qpoll_prefix(w.file_name) : w \in Workbooks}

\* What the call parsed from its file
CallParsed ==
    IF Head(queue).op = "welcome" THEN parse_welcome(INPUT_FOLDER.welcome)
    ELSE IF Head(queue).script = "insert_2nd" THEN parse_second(INPUT_FOLDER.data2, PREFIX)
    ELSE parse_qpoll(WorkbookNamed(Head(queue).file).sheet1, CallPrefix)

(***************************************************************************)
(* C2: cross-source isolation of answer replacement.  Whenever the data    *)
(* stage of a source B runs, every stored answer whose question id begins  *)
(* with the prefix of another source A of the folder (and not with B's)    *)
(* is still stored, as often as before, after the stage.                   *)
(***************************************************************************)
C2_Isolation ==
    [][DataCall =>
          \A r \in DOMAIN answers :
              (/\ \E pa \in SourcePrefixes \ {CallPrefix} : StartsWith(r.question_id, pa)
               /\ ~StartsWith(r.question_id, CallPrefix))
              => (r \in DOMAIN answers' /\ answers'[r] = answers[r])]_vars

(***************************************************************************)
(* C3: first-writer-wins per metadata field.  Whenever a stage upserts     *)
(* metadata, every stored row is still stored after it; each of its fields *)
(* that was non-null has the same value after the stage; and when the      *)
(* stage commits, each field that was null holds the candidate the stage   *)
(* supplied for that respondent (insert_1st supplies no birth_year, and    *)
(* an INT age column holds the number its text denotes).                   *)
(***************************************************************************)
MetadataFields == {"mobile_carrier", "gender", "birth_year", "age", "region"}

\* The fields the statement of the call names
SuppliedFields ==
    IF Head(queue).op = "welcome" THEN MetadataFields \ {"birth_year"} ELSE MetadataFields

\* The candidate the call supplies for a respondent and a field
Candidate(p, id, field) ==
    LET i == CHOOSE i \in 1..Len(p.metadata) : p.metadata[i].mb_sn = id
        v == p.metadata[i][field]
    IN  IF field = "age" /\ Head(queue).op = "welcome" /\ schema = "v2" /\ IsIntLiteral(v)
        THEN PyInt(v) ELSE v

C3_FirstWriterWins ==
    [][MetadataCall =>
          \A id \in DOMAIN metadata :
              /\ id \in DOMAIN metadata'
              /\ \A field \in MetadataFields :
                    /\ metadata[id][field] # NULL => metadata'[id][field] = metadata[id][field]
                    /\ (/\ metadata[id][field] = NULL
                        /\ last'.ok
                        /\ field \in SuppliedFields
                        /\ \E i \in 1..Len(CallParsed.metadata) : CallParsed.metadata[i].mb_sn = id)
                       => metadata'[id][field] = Candidate(CallParsed, id, field)]_vars

\* After a committed qpoll data stage: P1's gender is not the candidate of
\* this file (an earlier source wrote it first), and P1's birth year, which
\* the earlier source left null, is this file's candidate.
C3_KeptAndFilled ==
    /\ last.op = "insert_qpoll.data" /\ last.ok
    /\ "P1" \in DOMAIN metadata
    /\ LET p == parse_qpoll(WorkbookNamed(last.file).sheet1, qpoll_prefix(last.file))
       IN  \E i \in 1..Len(p.metadata) :
              /\ p.metadata[i].mb_sn = "P1"
              /\ p.metadata[i].gender \notin {NULL, metadata["P1"].gender}
              /\ metadata["P1"].gender # NULL
              /\ p.metadata[i].birth_year # NULL
              /\ metadata["P1"].birth_year = p.metadata[i].birth_year

(***************************************************************************)
(* C4: the two-source merge scenario.  Source A, ingested first, supplies  *)
(* for P1 a male gender and no region; source B (a qpoll workbook with the *)
(* sheet PanelF) supplies a female gender and the region Seoul.  When B's  *)
(* data stage has committed and P1's gender is A's canonical value, P1's   *)
(* region is Seoul.                                                        *)
(***************************************************************************)
C4_MergeScenario ==
    (/\ last.op = "insert_qpoll.data" /\ last.ok
     /\ WorkbookNamed(last.file).sheet1 = PanelF
     /\ "P1" \in DOMAIN metadata
     /\ metadata["P1"].gender = map_gender_qpoll("nam"))
    => metadata["P1"].region = "Seoul"

(***************************************************************************)
(* C5: exact replacement of a source's answers.  From every store between  *)
(* runs and for every sample file put in the place of a source's data      *)
(* file: after a committed data stage with prefix p and the respondent set *)
(* R of the file, each record derived from the file is stored exactly as   *)
(* often as the file yields it, no other record with prefix p of a         *)
(* respondent in R is stored, and the records with prefix p of respondents *)
(* outside R are stored as often as before.                                *)
(***************************************************************************)
Replaced(before, after, prefix, p) ==
    LET derived == SeqToBag(p.answers)
    IN  /\ \A r \in DOMAIN derived : CopiesIn(r, after) = CopiesIn(r, derived)
        /\ \A r \in DOMAIN after :
              (StartsWith(r.question_id, prefix) /\ r.mb_sn \in p.respondents)
              => r \in DOMAIN derived
        /\ \A r \in DOMAIN before \cup DOMAIN after :
              (StartsWith(r.question_id, prefix) /\ r.mb_sn \notin p.respondents)
              => CopiesIn(r, after) = CopiesIn(r, before)

C5_ExactReplacement ==
    queue = <<>> =>
        /\ \A w \in Workbooks : \A sheet1 \in PanelSheets :
              LET prefix == qpoll_prefix(w.file_name)
                  d == setup_master_tables(db, "v2")
                  result == process_data_etl_qpoll(d, sheet1, prefix, "none")
              IN  result.ok =>
                     Replaced(d.answers, result.db.answers, prefix, parse_qpoll(sheet1, prefix))
        /\ \A df_panel \in SecondFiles :
              LET d == setup_master_tables(db, "v1")
                  result == process_data_etl_second(d, df_panel, PREFIX, "none")
              IN  result.ok =>
                     Replaced(d.answers, result.db.answers, PREFIX, parse_second(df_panel, PREFIX))

\* A store between runs, after a committed qpoll data stage, and a file for
\* one of its workbooks whose data stage will commit: the store holds a
\* record with the workbook's prefix of a respondent of the file that the
\* file does not yield, and one of a respondent the file does not have.
C5_LeftOverAndOutside ==
    /\ queue = <<>> /\ last.op = "insert_qpoll.data" /\ last.ok
    /\ \E w \in Workbooks : \E sheet1 \in PanelSheets :
          LET prefix == qpoll_prefix(w.file_name)
              p == parse_qpoll(sheet1, prefix)
          IN  /\ process_data_etl_qpoll(db, sheet1, prefix, "none").ok
              /\ \E r \in DOMAIN answers :
                    /\ StartsWith(r.question_id, prefix) /\ r.mb_sn \in p.respondents
                    /\ r \notin DOMAIN SeqToBag(p.answers)
              /\ \E r \in DOMAIN answers :
                    StartsWith(r.question_id, prefix) /\ r.mb_sn \notin p.respondents

(***************************************************************************)
(* C6: failure isolation between sources.  Whenever a stage (the reading,  *)
(* parsing and merging of one file) fails, the four tables are as before   *)
(* the stage, and the run goes on with the call that was next in order.    *)
(***************************************************************************)
C6_FailureIsolation ==
    [][(StageCall /\ ~last'.ok) => (tables' = tables /\ queue' = Tail(queue))]_vars

\* A qpoll data stage has failed in a run that still has calls to make,
\* with rows of an earlier source stored.
C6_FailedAndWentOn ==
    /\ last.op = "insert_qpoll.data" /\ ~last.ok
    /\ queue # <<>>
    /\ respondents # {} /\ DOMAIN metadata # {}

(***************************************************************************)
(* C7 as claimed: the merge phase of a source, its codebook upserts        *)
(* included, is one unit.  When a qpoll workbook's codebook stage is about *)
(* to run and the data stage that follows it fails, the store is as it was *)
(* before the codebook stage.                                              *)
(***************************************************************************)
C7_SourceAtomic ==
    Call("insert_qpoll", "codebook") =>
        \A fault \in Faults :
            LET w == WorkbookNamed(Head(queue).file)
                prefix == qpoll_prefix(w.file_name)
                codebook_stage == process_codebook_etl_qpoll(db, w.sheet2, prefix, "none")
                data_stage == process_data_etl_qpoll(codebook_stage.db, w.sheet1, prefix, fault)
            IN  ~data_stage.ok => data_stage.db = db

(***************************************************************************)
(* C7, amended: each stage is atomic by itself.  A stage that fails leaves *)
(* the four tables as they were before it; a stage that commits has made   *)
(* all its writes: a codebook stage every entry of its file, a data stage  *)
(* (and the welcome_1st stage) every respondent of its file, a metadata    *)
(* row for each respondent it has metadata for, and each answer of its     *)
(* file as often as the file yields it.                                    *)
(***************************************************************************)
CallCodebooks ==
    IF Head(queue).script = "insert_2nd"
    THEN parse_codebook_second(INPUT_FOLDER.codebook2, PREFIX).codebooks
    ELSE parse_codebook_qpoll(WorkbookNamed(Head(queue).file).sheet2, CallPrefix).codebooks

C7_StageAtomic ==
    [][StageCall =>
          IF ~last'.ok THEN tables' = tables
          ELSE IF Head(queue).op = "codebook"
          THEN \A id \in DOMAIN CallCodebooks :
                  id \in DOMAIN codebooks' /\ codebooks'[id] = CallCodebooks[id]
          ELSE /\ CallParsed.respondents \subseteq respondents'
               /\ \A i \in 1..Len(CallParsed.metadata) :
                     CallParsed.metadata[i].mb_sn \in DOMAIN metadata'
               /\ LET derived == SeqToBag(CallParsed.answers)
                  IN  \A r \in DOMAIN derived : CopiesIn(r, answers') = CopiesIn(r, derived)]_vars

\* A qpoll data stage has failed while answers of its prefix are stored:
\* they are all still there, and so are the codebook entries that the
\* workbook's codebook stage committed.
C7_FailedAfterCodebooks ==
    /\ last.op = "insert_qpoll.data" /\ ~last.ok
    /\ \E r \in DOMAIN answers : StartsWith(r.question_id, qpoll_prefix(last.file))
    /\ \E id \in DOMAIN codebooks : StartsWith(id, qpoll_prefix(last.file))

(***************************************************************************)
(* C8 as claimed: no call of an ingestion run, the full pipeline included, *)
(* removes a respondent, a metadata row or a codebook entry.               *)
(***************************************************************************)
Persist ==
    /\ respondents \subseteq respondents'
    /\ DOMAIN metadata \subseteq DOMAIN metadata'
    /\ DOMAIN codebooks \subseteq DOMAIN codebooks'

QuestionIds(p) == {p.answers[i].question_id : i \in 1..Len(p.answers)}

\* The ids a qpoll workbook produces, and those welcome_2nd produces
WorkbookIds(w) ==
    DOMAIN parse_codebook_qpoll(w.sheet2, qpoll_prefix(w.file_name)).codebooks
    \cup QuestionIds(parse_qpoll(w.sheet1, qpoll_prefix(w.file_name)))

SecondIds ==
    DOMAIN parse_codebook_second(INPUT_FOLDER.codebook2, PREFIX).codebooks
    \cup QuestionIds(parse_second(INPUT_FOLDER.data2, PREFIX))

C9_NoCollision ==
    \A w1 \in Workbooks :
        /\ WorkbookIds(w1) \cap SecondIds = {}
        /\ \A w2 \in Workbooks \ {w1} : WorkbookIds(w1) \cap WorkbookIds(w2) = {}

(***************************************************************************)
(* C10: the strict question-start test of the vertical codebook parser.    *)
(* A row whose code is a number opens no question: no codebook entry of    *)
(* welcome_2nd is stored under a numeric code.                             *)
(***************************************************************************)
C10_StrictQuestionStart ==
    \A id \in DOMAIN codebooks :
        StartsWith(id, PREFIX) => ~isdigit(SubSeq(id, Len(PREFIX) + 1, Len(id)))

(***************************************************************************)
(* C11: forward fill of the title row.  A title cell is blank when it is   *)
(* the empty cell (NaN) or a placeholder starting with 'Unnamed'.  The     *)
(* resolved titles are as many as the cells, and the title of each column  *)
(* is the (stripped, single-line) text of the nearest non-blank cell at or *)
(* to the left of the column, the empty text when there is none.           *)
(***************************************************************************)
IsBlankTitle(val) == isna(val) \/ StartsWith(val, "Unnamed")

C11_ForwardFill ==
    applied.fn = "forward_fill" =>
        LET title_values == applied.args
            title_columns == applied.result
        IN  /\ Len(title_columns) = Len(title_values)
            /\ \A i \in 1..Len(title_values) :
                  LET left == {k \in 1..i : ~IsBlankTitle(title_values[k])}
                  IN  title_columns[i] =
                         IF left = {} THEN ""
                         ELSE Replace(Strip(title_values[CHOOSE k \in left : \A m \in left : m <= k]),
                                      "\n", " ")

\* The row [Q1, blank, blank, Q2, blank], its second blank a placeholder
\* and its Q2 written with a line break, resolved to [Q1, Q1, Q1, Q2, Q2].
C11_MergedCells ==
    /\ applied.fn = "forward_fill"
    /\ applied.args = <<"Q1", NaN, "Unnamed: 3", " Q\n2\n", NaN>>
    /\ applied.result = <<"Q1", "Q1", "Q1", "Q 2", "Q 2">>

(***************************************************************************)
(* C12: multi-value splitting.  The records a data row yields for an       *)
(* answer cell of respondent R in the column of question Q are one         *)
(* (R, Q, token) for each non-blank trimmed piece of the value between its *)
(* commas, in order, and none for a missing, empty or whitespace-only      *)
(* value; no record has a blank value.  (A cell whose whole text is the    *)
(* missing marker 'nan' is a missing value to insert_qpoll, which cleans   *)
(* its cells, and the token 'nan' to insert_2nd.)                          *)
(***************************************************************************)
Tokens(value) ==
    LET commas == {i \in 1..Len(value) : Ch(value, i) = ","}
        n == Cardinality(commas)
        cut(k) == IF k = 0 THEN 0
                  ELSE IF k = n + 1 THEN Len(value) + 1
                  ELSE CHOOSE i \in commas : Cardinality({j \in commas : j < i}) = k - 1
        pieces == [k \in 1..(n + 1) |-> Strip(SubSeq(value, cut(k - 1) + 1, cut(k) - 1))]
    IN  SelectSeq(pieces, LAMBDA t : t # "")

IsMissing(script, value) ==
    isna(value) \/ (script = "insert_qpoll" /\ Lower(Strip(value)) = "nan")

UsableId(mb_sn) == Strip(mb_sn) # "" /\ Lower(Strip(mb_sn)) # "nan"

C13_UnusableIdSkipped ==
    applied.fn = "ingest_row" =>
        /\ \A mb_sn \in applied.result.respondents : UsableId(mb_sn)
        /\ \A mb_sn \in DOMAIN applied.result.metadata : UsableId(mb_sn)
        /\ \A r \in DOMAIN applied.result.answers : UsableId(r.mb_sn)

(***************************************************************************)
(* C14: one respondent per person across sources.  After the scripts have  *)
(* run in any order, the respondents are exactly the ids of the data files *)
(* whose stage committed, stored as the files have them, without a source  *)
(* prefix; and the respondents statement leaves every existing row as it   *)
(* is, its profile_vector included, adds one row for each id that has      *)
(* none, and leaves the table with one row for an id.                      *)
(***************************************************************************)
C14_OneRespondentPerPerson ==
    /\ applied.fn = "run_scripts" =>
          /\ applied.result.db.respondents = applied.result.seen
          /\ \A id \in applied.result.db.respondents :
                \A prefix \in SourcePrefixes : ~StartsWith(id, prefix)
    /\ applied.fn = "respondents_query" =>
          LET rows == applied.args[1]
              ids == applied.args[2]
              after == applied.result
          IN  /\ rows \subseteq after
              /\ {r.mb_sn : r \in after} = {r.mb_sn : r \in rows} \cup ids
              /\ \A r1, r2 \in after : r1.mb_sn = r2.mb_sn => r1 = r2

\* insert_2nd and then insert_1st have run on files that both have P1, and
\* P1 is the one respondent, with the metadata insert_1st gave it.
C14_SeenByTwoSources ==
    /\ applied.fn = "run_scripts"
    /\ applied.args = <<"insert_2nd", "insert_1st">>
    /\ "P1" \in parse_second(INPUT_FOLDER.data2, PREFIX).respondents
    /\ "P1" \in parse_welcome(INPUT_FOLDER.welcome).respondents
    /\ applied.result.db.respondents = {"P1"}
    /\ "P1" \in DOMAIN applied.result.db.metadata

(***************************************************************************)
(* C15: latest write wins for codebook entries.  After codebook upserts    *)
(* one after the other, the stored ids are the ids of all the upserts, and *)
(* the stored payload of an id is, as a whole, the payload the most recent *)
(* upsert with that id gave it.                                            *)
(***************************************************************************)
C15_LatestWriteWins ==
    applied.fn = "codebook_stages" =>
        LET files == applied.args
            stored == applied.result
        IN  /\ DOMAIN stored = UNION {DOMAIN data_to_insert(files[k]) : k \in 1..Len(files)}
            /\ \A id \in DOMAIN stored :
                  LET with == {k \in 1..Len(files) : id \in DOMAIN data_to_insert(files[k])}
                      latest == CHOOSE k \in with : \A m \in with : m <= k
                  IN  stored[id] = data_to_insert(files[latest])[id]

\* The entry qp1_Q was written with the choices a, b, c, then with a, d,
\* while another entry was stored: it has the two choices 1 'a' and 3 'd'.
C15_Overwritten ==
    /\ applied.fn = "codebook_stages"
    /\ applied.args = <<<<"insert_2nd", VerticalClean>>, <<"insert_qpoll", CodebookAbc>>,
                        <<"insert_qpoll", CodebookAd>>>>
    /\ applied.result["qp1_Q"].answers = <<Choice("1", "a"), Choice("3", "d")>>
    /\ "w2_Q" \in DOMAIN applied.result

(***************************************************************************)
(* C16: a failed codebook stage aborts its source.  Whenever the codebook  *)
(* stage of a source fails (its file cannot be read or parsed, or its      *)
(* upsert fails), no data stage of that source is among the calls the run  *)
(* still makes.                                                            *)
(***************************************************************************)
C16_CodebookFailureAborts ==
    [][(queue # <<>> /\ Head(queue).op = "codebook" /\ ~last'.ok)
          => \A i \in 1..Len(queue') :
                ~ /\ queue'[i].op = "data"
                  /\ queue'[i].script = Head(queue).script
                  /\ queue'[i].file = Head(queue).file]_vars

C18_SameFilesSameMetadata ==
    applied.fn = "qpoll_main" => applied.result[1].metadata = applied.result[2].metadata

(***************************************************************************)
(* C19: the ingestion never writes a vector column.  Each statement of the *)
(* ingestion on the respondents, the codebooks or the answers leaves the   *)
(* vector of every row it finds as it is (a codebook row that an upsert    *)
(* hits included) and writes every new row without a vector; and           *)
(* embed_codebooks gives a question vector to the rows that have none and  *)
(* changes no vector that is assigned and no codebook data.                *)
(***************************************************************************)
C19_IngestionLeavesVectors ==
    /\ applied.fn = "respondents_query" =>
          \A r \in applied.result :
              IF \E o \in applied.args[1] : o.mb_sn = r.mb_sn
              THEN r \in applied.args[1]
              ELSE r.profile_vector = NULL
    /\ applied.fn = "insert_query" =>
          /\ \A o \in applied.args[1] :
                \E r \in applied.result : r.codebook_id = o.codebook_id /\ r.q_vector = o.q_vector
          /\ \A r \in applied.result :
                IF \E o \in applied.args[1] : o.codebook_id = r.codebook_id
                THEN \E o \in applied.args[1] : o.codebook_id = r.codebook_id /\ o.q_vector = r.q_vector
                ELSE r.q_vector = NULL
    /\ applied.fn = "answers_query" =>
          \A r \in applied.result : r \in applied.args[1] \/ r.a_vector = NULL
    /\ applied.fn = "embed_codebooks" =>
          /\ {r.codebook_id : r \in applied.result} = {o.codebook_id : o \in applied.args[1]}
          /\ \A r \in applied.result :
                \E o \in applied.args[1] :
                    /\ o.codebook_id = r.codebook_id
                    /\ o.codebook_data = r.codebook_data
                    /\ IF o.q_vector = NULL THEN r.q_vector # NULL ELSE r.q_vector = o.q_vector

\* A codebook upsert has replaced the data of a row that has a vector, which
\* it kept, and has added a row, which has none.
C19_UpsertHitEmbeddedRow ==
    /\ applied.fn = "insert_query"
    /\ \E o \in applied.args[1], r \in applied.result :
          /\ o.codebook_id = r.codebook_id
          /\ o.codebook_data # r.codebook_data
          /\ o.q_vector # NULL /\ r.q_vector = o.q_vector
    /\ \E r \in applied.result :
          /\ \A o \in applied.args[1] : o.codebook_id # r.codebook_id
          /\ r.q_vector = NULL

(***************************************************************************)
(* C20: allow-listed metadata filters.  In the clause a builder returns,   *)
(* every placeholder closes the condition of a filter of the list whose    *)
(* column is a metadata column and whose operator is in the operator list, *)
(* and the parameter at the placeholder's position is that filter's value; *)
(* there are as many parameters as placeholders, and no more of them than  *)
(* there are such filters.                                                 *)
(***************************************************************************)
RECURSIVE BeforePlaceholders(_, _)
BeforePlaceholders(clause, text) ==
    IF Len(clause) = 0 THEN <<>>
    ELSE IF StartsWith(clause, "%s")
         THEN <<text>> \o BeforePlaceholders(SubSeq(clause, 3, Len(clause)), "")
         ELSE BeforePlaceholders(SubSeq(clause, 2, Len(clause)), text \o Ch(clause, 1))

AllowListed(f) == f.column \in ALLOWED_COLS /\ f.operator \in ALLOWED_OPS

C20_AllowListedFilters ==
    applied.fn \in {"build_where", "build_metadata_where_clause"} =>
        LET before == BeforePlaceholders(applied.result.clause, "")
            params == applied.result.params
        IN  /\ Len(before) = Len(params)
            /\ Len(params) <= Len(SelectSeq(applied.args, AllowListed))
            /\ \A k \in 1..Len(before) :
                  \E i \in 1..Len(applied.args) :
                      /\ AllowListed(applied.args[i])
                      /\ EndsWith(before[k], " " \o applied.args[i].column \o " "
                                             \o applied.args[i].operator \o " ")
                         \/ EndsWith(before[k], "(" \o applied.args[i].column \o " "
                                                \o applied.args[i].operator \o " ")
                      /\ params[k] = applied.args[i].value

(***************************************************************************)
(* C21: the vertical codebook parser.  Over any sequence of rows the       *)
(* parser emits one entry for each question-start row, in the order of     *)
(* the rows; the entry has the id and the title of its row, and its        *)
(* choices are the accepted choice rows between its row and the next       *)
(* question-start row (or the end of the file), in order.  So a choice row *)
(* read before the first question-start row is in no entry.                *)
(***************************************************************************)
QuestionStartRow(row) == row[1] # NaN /\ Strip(row[1]) # ""

AcceptedChoiceRow(row) ==
    /\ ~QuestionStartRow(row)
    /\ row[2] # NaN /\ row[3] # NaN
    /\ isdigit(Strip(row[2]))
    /\ Strip(row[3]) \notin {"SINGLE", "Numeric", "String", "nan"}

\* The indices of a set, in increasing order
RECURSIVE Ascending(_)
Ascending(S) ==
    IF S = {} THEN <<>>
    ELSE LET m == CHOOSE i \in S : \A j \in S : i <= j
         IN  <<m>> \o Ascending(S \ {m})

C21_OneEntryPerQuestionStart ==
    applied.fn = "vertical_objects" =>
        LET rows == applied.args
            objects == applied.result
            starts == Ascending({i \in 1..Len(rows) : QuestionStartRow(rows[i])})
            until(k) == IF k < Len(starts) THEN starts[k + 1] ELSE Len(rows) + 1
            choices(k) == Ascending({j \in (starts[k] + 1)..(until(k) - 1) : AcceptedChoiceRow(rows[j])})
        IN  /\ Len(objects) = Len(starts)
            /\ \A k \in 1..Len(starts) :
                  /\ objects[k].codebook_id = PREFIX \o Strip(rows[starts[k]][1])
                  /\ objects[k].q_title = Strip(Str(rows[starts[k]][2]))
                  /\ objects[k].answers =
                        [n \in 1..Len(choices(k)) |->
                            Choice(Strip(rows[choices(k)[n]][2]), Strip(rows[choices(k)[n]][3]))]

\* A choice row, the start of Q1, two choice rows and the start of Q2 have
\* been read: Q1 has the two choices that followed it, Q2 has none, and the
\* choice read before Q1 is in neither.
C21_StrayThenTwoQuestions ==
    /\ applied.fn = "vertical_objects"
    /\ Len(applied.args) = 4
    /\ applied.args[1] = <<NaN, " 2 ", " married ">>
    /\ applied.args[2] = <<"Q1", "marital", "SINGLE">>
    /\ applied.args[3] = <<NaN, "1", "single">>
    /\ applied.args[4] = <<" Q2 ", NaN, "Numeric">>
    /\ applied.result = <<CodebookObj("w2_Q1", "marital", <<Choice("1", "single")>>),
                          CodebookObj("w2_Q2", "nan", <<>>)>>

(***************************************************************************)
(* C22: the horizontal codebook parser.  The entries are those of the rows *)
(* whose title is neither blank or missing nor a demographic or id field   *)
(* name (the later row for a title that occurs twice); the choices of an   *)
(* entry are the non-blank cells among the ten choice columns, in column   *)
(* order, each with the number of its column as its code; a row with a     *)
(* blank or missing title gives no entry.                                  *)
(***************************************************************************)
BlankCell(cell) == cell = NaN \/ Strip(cell) = ""

QuestionRow(row) ==
    /\ ~BlankCell(row[1])
    /\ ~InSeq(Strip(row[1]), METADATA_COLUMNS)
    /\ ~InSeq(Strip(row[1]), ID_CANDIDATES)

\* The choices of a row: column bogi<i> is at HorizontalColumns[col]
OrdinalChoices(row) ==
    LET cols == Ascending({col \in 2..Len(HorizontalColumns) :
                              /\ \E i \in 1..10 : HorizontalColumns[col] = "bogi" \o IntToStr(i)
                              /\ ~BlankCell(row[col])})
    IN  [n \in 1..Len(cols) |->
            Choice(SubSeq(HorizontalColumns[cols[n]], 5, Len(HorizontalColumns[cols[n]])),
                   Strip(row[cols[n]]))]

C22_HorizontalEntries ==
    applied.fn = "parse_codebook_qpoll" =>
        LET rows == applied.args
            entries == applied.result
            id(i) == "qp1_" \o Replace(Strip(rows[i][1]), "\n", " ")
            questions == {i \in 1..Len(rows) : QuestionRow(rows[i])}
        IN  /\ DOMAIN entries = {id(i) : i \in questions}
            /\ \A i \in questions :
                  (\A j \in questions : id(j) = id(i) => j <= i)
                  => entries[id(i)] = CodebookObj(id(i), Strip(rows[i][1]), OrdinalChoices(rows[i]))

(***************************************************************************)
(* The records a qpoll sheet should yield, each with the cell it comes     *)
(* from: for each data row, for each column that is a question column (no  *)
(* id, demographic or ignored column, no free-text column '_ETC') and has  *)
(* a title (the nearest non-blank title cell at or left of it), one record *)
(* for each token of the row's cell in that column.                        *)
(***************************************************************************)
ResolvedTitle(titles, i) ==
    LET left == {k \in 1..i : ~IsBlankTitle(titles[k])}
    IN  IF left = {} THEN ""
        ELSE Replace(Strip(titles[CHOOSE k \in left : \A m \in left : m <= k]), "\n", " ")

FreeTextColumn(i) == EndsWith(QpollColumns[i], "_ETC")

TitledQuestionColumns(titles) ==
    Ascending({i \in 1..Len(QpollColumns) :
                  /\ ~InSeq(QpollColumns[i], ID_CANDIDATES)
                  /\ ~InSeq(QpollColumns[i], METADATA_COLUMNS)
                  /\ ~InSeq(QpollColumns[i], COLUMNS_TO_IGNORE)
                  /\ ~FreeTextColumn(i)
                  /\ ResolvedTitle(titles, i) # ""})

RECURSIVE Concat(_)
Concat(seqs) == IF Len(seqs) = 0 THEN <<>> ELSE Head(seqs) \o Concat(Tail(seqs))

CellRecords(titles, rows, k, i) ==
    LET tokens == IF IsMissing("insert_qpoll", rows[k][i]) THEN <<>> ELSE Tokens(rows[k][i])
    IN  [n \in 1..Len(tokens) |->
            [record |-> AnswerRow(rows[k][1], "qp1_" \o ResolvedTitle(titles, i), tokens[n]),
             row |-> k, column |-> i]]

Traced(titles, rows) ==
    LET columns == TitledQuestionColumns(titles)
    IN  Concat([k \in 1..Len(rows) |->
                   Concat([n \in 1..Len(columns) |-> CellRecords(titles, rows, k, columns[n])])])

(***************************************************************************)
(* C23: free-text columns never enter the store.  The records of a sheet   *)
(* are those of its titled question columns and no others: a column whose  *)
(* short code ends with '_ETC' and a column that resolves to no title      *)
(* yield no record, so no record has the value of a cell of such a column  *)
(* and none has an id that is the prefix alone.                            *)
(***************************************************************************)
C23_FreeTextNeverStored ==
    applied.fn = "parse_qpoll" =>
        LET traced == Traced(applied.args[1], applied.args[2])
        IN  /\ applied.result = [n \in 1..Len(traced) |-> traced[n].record]
            /\ \A n \in 1..Len(applied.result) :
                  /\ applied.result[n].question_id # "qp1_"
                  /\ applied.result[n].answer_value # "etc"
                  /\ ResolvedTitle(applied.args[1], 2) = "" => applied.result[n].answer_value # "zz"

\* A row with an answer in every column, under a title row that has no
\* title for munhang0 and none of its own for munhang2_ETC, has yielded the
\* records of munhang1 and munhang2 alone.
C23_FreeTextCellSkipped ==
    /\ applied.fn = "parse_qpoll"
    /\ applied.args = << <<NaN, NaN, "Q1", "Q2", NaN>>, << <<"P1", "zz", "1, 3", "3", "etc">> >> >>
    /\ applied.result = <<AnswerRow("P1", "qp1_Q1", "1"), AnswerRow("P1", "qp1_Q1", "3"),
                          AnswerRow("P1", "qp1_Q2", "3")>>

(***************************************************************************)
(* C25: several records for one (respondent id, question id) pair come     *)
(* from one cell only.  Any two records a sheet yields (which the data     *)
(* stage stores as they are) with the same respondent id and the same      *)
(* question id are tokens of the same cell: of the same row and the same   *)
(* column.                                                                 *)
(***************************************************************************)
C25_SamePairSameCell ==
    applied.fn = "parse_qpoll" =>
        LET traced == Traced(applied.args[1], applied.args[2])
        IN  applied.result = [n \in 1..Len(traced) |-> traced[n].record]
            => \A a, b \in 1..Len(traced) :
                  (/\ a # b
                   /\ traced[a].record.mb_sn = traced[b].record.mb_sn
                   /\ traced[a].record.question_id = traced[b].record.question_id)
                  => traced[a].row = traced[b].row /\ traced[a].column = traced[b].column

(***************************************************************************)
(* C24: missing demographic cells are stored as null.  No cell of the      *)
(* input files holds the empty text or the text 'nan' (pandas reads both   *)
(* as the missing cell), so a metadata field that holds the empty text, or *)
(* a text made of the missing marker, was written for a missing cell: no   *)
(* stored metadata field is such a text.                                   *)
(***************************************************************************)
MissingMarkerText(v) == v # NULL /\ (Strip(v) = "" \/ Replace(Lower(v), "nan", "") \in {"", " "})

C24_MissingStoredAsNull ==
    \A id \in DOMAIN metadata :
        \A field \in MetadataFields : ~MissingMarkerText(metadata[id][field])

(***************************************************************************)
(* C27: schema agreement across the pipeline.  In a run of the full        *)
(* pipeline (the calls of insert_qpoll are followed by those of            *)
(* insert_2nd in no other run), the data stage of a qpoll workbook whose   *)
(* file parses commits when no fault from outside the data occurs: the     *)
(* metadata table that insert_1st created accepts its metadata upsert.     *)
(***************************************************************************)
PipelineQpollDataCall ==
    /\ Call("insert_qpoll", "data")
    /\ queue[Len(queue)].script = "insert_2nd"

C27_SchemaAgreement ==
    PipelineQpollDataCall =>
        LET sheet1 == WorkbookNamed(Head(queue).file).sheet1
        IN  parse_qpoll(sheet1, CallPrefix).ok
            => process_data_etl_qpoll(db, sheet1, CallPrefix, "none").ok

(***************************************************************************)
(* C26 as claimed: id-column resolution.  In every source the id column is *)
(* the candidate of the list (mb_sn, goyubeonho, paeneolID, id) that comes *)
(* first in the list among those the file has; the respondents of the file *)
(* are the cells of that column.  A file with none of the candidates       *)
(* fails and nothing is written.                                           *)
(***************************************************************************)
\* The first name of a priority list that the header has, "" for none
Resolved(candidates, header) ==
    LET present == {i \in 1..Len(candidates) : InSeq(candidates[i], header)}
    IN  IF present = {} THEN ""
        ELSE candidates[CHOOSE i \in present : \A j \in present : i <= j]

\* What the stage of a script has done with a file whose id column is column
FileResolvedTo(script, result, column) ==
    LET fresh == setup_master_tables(EmptyStore, IF script = "insert_qpoll" THEN "v2" ELSE "v1")
    IN  IF column = "" THEN ~result.ok /\ result.db = fresh
        ELSE result.ok /\ result.db.respondents = {IdCellOf(column)}

C26_IdColumnResolution ==
    applied.fn = "ingest_file" =>
        FileResolvedTo(applied.args[1], applied.result, Resolved(ID_CANDIDATES, applied.args[2]))

(***************************************************************************)
(* C26, amended: insert_1st and insert_qpoll resolve the id column from    *)
(* the candidate list, by the order of the list; insert_2nd has the one    *)
(* candidate mb_sn.  A file with no candidate of its script fails and the  *)
(* stage writes nothing.                                                   *)
(***************************************************************************)
C26_IdColumnPerScript ==
    applied.fn = "ingest_file" =>
        FileResolvedTo(applied.args[1], applied.result,
                       Resolved(IF applied.args[1] = "insert_2nd" THEN <<"mb_sn">> ELSE ID_CANDIDATES,
                                applied.args[2]))

\* A qpoll sheet whose header has id and then goyubeonho, and no mb_sn, has
\* been ingested with the cells of goyubeonho as its respondents.
C26_PriorityOverFileOrder ==
    /\ applied.fn = "ingest_file"
    /\ applied.args = <<"insert_qpoll", <<"id", "goyubeonho">>>>
    /\ applied.result.ok
    /\ applied.result.db.respondents = {IdCellOf("goyubeonho")}

(***************************************************************************)
(* C28: repeated respondent rows within one file.  When the welcome_1st    *)
(* stage, or the data stage of a qpoll workbook, is about to run on a file *)
(* that has an id on more than one row, on a metadata table of the         *)
(* script's own shape, the stage (no fault from outside the data) commits, *)
(* and every respondent of the file has its respondents row and its        *)
(* metadata row (one each: mb_sn is the key of both tables).               *)
(***************************************************************************)
RepeatedId(columns, rows, id_column) ==
    \E i, j \in 1..Len(rows) :
        /\ i # j
        /\ clean_cell(Get(columns, rows[i], id_column, NaN)) # ""
        /\ clean_cell(Get(columns, rows[i], id_column, NaN))
           = clean_cell(Get(columns, rows[j], id_column, NaN))

MergedOnePerId(result, p) ==
    /\ result.ok
    /\ \A id \in p.respondents : id \in result.db.respondents /\ id \in DOMAIN result.db.metadata

C28_RepeatedRowsMerge ==
    /\ (/\ Call("insert_1st", "welcome") /\ schema = "v1"
        /\ INPUT_FOLDER.welcome.readable
        /\ RepeatedId(INPUT_FOLDER.welcome.columns, INPUT_FOLDER.welcome.rows,
                      welcome_id_column(INPUT_FOLDER.welcome.columns)))
       => MergedOnePerId(process_welcome_etl(db, INPUT_FOLDER.welcome, "none"), CallParsed)
    /\ (/\ Call("insert_qpoll", "data") /\ schema = "v2"
        /\ LET sheet1 == WorkbookNamed(Head(queue).file).sheet1
           IN  /\ sheet1.readable
               /\ RepeatedId(sheet1.columns, sheet1.rows, FirstCandidate(sheet1.columns)))
       => MergedOnePerId(process_data_etl_qpoll(db, WorkbookNamed(Head(queue).file).sheet1,
                                                CallPrefix, "none"), CallParsed)

(***************************************************************************)
(* C29: traceable question ids.  From every store between runs, for every  *)
(* sample codebook and data file put in the place of a source's files:     *)
(* when the codebook stage and then the data stage of the source have both *)
(* committed, every stored answer of a respondent of the file whose        *)
(* question id has the source's prefix has the id of a stored codebook     *)
(* entry.                                                                  *)
(***************************************************************************)
Traceable(d, prefix, ids) ==
    \A r \in DOMAIN d.answers :
        (StartsWith(r.question_id, prefix) /\ r.mb_sn \in ids) => r.question_id \in DOMAIN d.codebooks

C29_TraceableQuestionIds ==
    queue = <<>> =>
        /\ \A w \in Workbooks : \A sheet2 \in CodebookSheets : \A sheet1 \in PanelSheets :
              LET prefix == qpoll_prefix(w.file_name)
                  codebook_stage == process_codebook_etl_qpoll(setup_master_tables(db, "v2"),
                                                               sheet2, prefix, "none")
                  data_stage == process_data_etl_qpoll(codebook_stage.db, sheet1, prefix, "none")
              IN  (codebook_stage.ok /\ data_stage.ok)
                  => Traceable(data_stage.db, prefix, parse_qpoll(sheet1, prefix).respondents)
        /\ \A df_codebook \in VerticalCodebooks : \A df_panel \in SecondFiles :
              LET codebook_stage == process_codebook_etl_second(setup_master_tables(db, "v1"),
                                                                df_codebook, PREFIX, "none")
                  data_stage == process_data_etl_second(codebook_stage.db, df_panel, PREFIX, "none")
              IN  (codebook_stage.ok /\ data_stage.ok)
                  => Traceable(data_stage.db, PREFIX, parse_second(df_panel, PREFIX).respondents)

(***************************************************************************)
(* The answer-embedding loop (embedding.embed_answers).  In this           *)
(* specification answers and codebooks hold the committed rows of the two  *)
(* tables with their vector columns, last holds the position of the        *)
(* function (at the head of the while, with a fetched batch, with the      *)
(* batch updated and not yet committed, returned) and whether it got there *)
(* without an exception, and applied holds the fetched rows and the        *)
(* answers table as the open transaction sees it.                          *)
(***************************************************************************)
\* LIMIT of the SELECT; 500 in the source, scaled to the size of the tables
BATCH_SIZE == 2
MaxAnswers == 4

zero_vector == "[0.0]"

\* codebook_data with nothing in it, the JSON object {}: no key has a value
EmptyObject == CodebookObj(NULL, NULL, <<>>)

RECURSIVE replace_first(_, _)
replace_first(s, old) ==
    IF Len(s) = 0 THEN s
    ELSE IF SubSeq(s, 1, 1) = old THEN SubSeq(s, 2, Len(s))
    ELSE SubSeq(s, 1, 1) \o replace_first(SubSeq(s, 2, Len(s)), old)

\* for choice in choices: if str(qi_val).strip() == str(answer_value).strip()
RECURSIVE choice_text(_, _)
choice_text(choices, answer_value) ==
    IF Len(choices) = 0 THEN NULL
    ELSE IF Strip(Head(choices).qi_val) = Strip(answer_value) THEN Strip(Head(choices).qi_title)
    ELSE choice_text(Tail(choices), answer_value)

\* The text embedded for a fetched row, NULL when there is none: the title
\* of the matching choice, else the answer itself unless it is a number.
text_to_embed(answer_value, codebook_data) ==
    IF answer_value \in {NULL, ""} \/ codebook_data = EmptyObject THEN NULL
    ELSE LET chosen == choice_text(codebook_data.answers, answer_value)
             text == IF chosen \notin {NULL, ""} THEN chosen
                     ELSE IF ~isdigit(replace_first(answer_value, ".")) THEN Strip(answer_value)
                     ELSE NULL
         IN  IF text = "" THEN NULL ELSE text

\* SELECT a.answer_id, a.answer_value, c.codebook_data FROM answers AS a
\* JOIN codebooks AS c ON a.question_id = c.codebook_id WHERE a.a_vector IS NULL
embed_query(answer_rows, codebook_rows) ==
    {r \in answer_rows : /\ r.a_vector = NULL
                         /\ \E c \in codebook_rows : c.codebook_id = r.answer.question_id}

\* LIMIT BATCH_SIZE without ORDER BY: any BATCH_SIZE of the rows, or all
fetchall(selected) ==
    {rows \in SUBSET selected :
        Cardinality(rows) = IF Cardinality(selected) < BATCH_SIZE THEN Cardinality(selected)
                            ELSE BATCH_SIZE}

row_text(r, codebook_rows) ==
    text_to_embed(r.answer.answer_value,
                  (CHOOSE c \in codebook_rows : c.codebook_id = r.answer.question_id).codebook_data)

tasks(rows, codebook_rows) == {r \in rows : row_text(r, codebook_rows) # NULL}
ids_to_mark_null(rows, codebook_rows) == {r \in rows : row_text(r, codebook_rows) = NULL}

\* UPDATE answers SET a_vector = data.a_vector FROM (VALUES ...) for the tasks
update_query(answer_rows, task_rows, codebook_rows) ==
    {IF \E t \in task_rows : t.answer_id = r.answer_id
     THEN [r EXCEPT !.a_vector = get_embeddings(row_text(r, codebook_rows))]
     ELSE r : r \in answer_rows}

\* The loop without the zero vectors: the rows with no text keep NULL
update_query_null_skipped(answer_rows, null_rows) == answer_rows

\* UPDATE answers SET a_vector = data.a_vector FROM (VALUES ...) with the
\* zero vector for the rows that have no text to embed
update_query_null(answer_rows, null_rows) ==
    {IF \E n \in null_rows : n.answer_id = r.answer_id
     THEN [r EXCEPT !.a_vector = zero_vector]
     ELSE r : r \in answer_rows}

EmbedCodebookRows ==
    {CodebookRow("qp1_Q", CodebookObj("qp1_Q", "Q", <<Choice("1", "single"), Choice(" 2 ", " ")>>), NULL),
     CodebookRow("w2_Q", CodebookObj("w2_Q", "Q", <<>>), NULL),
     CodebookRow("w2_E", EmptyObject, NULL)}

EmbedAnswerRows ==
    {<<1, AnswerRow("P1", "qp1_Q", "1")>>, <<2, AnswerRow("P1", "qp1_Q", "2")>>,
     <<3, AnswerRow("P1", "w2_Q", "K5")>>, <<4, AnswerRow("P2", "w2_Q", "3.5")>>,
     <<5, AnswerRow("P2", "w2_E", "x")>>, <<6, AnswerRow("P2", "zz_Q", "x")>>,
     <<7, AnswerRow("P1", "w2_Q", NULL)>>}

\* An answers table of at most MaxAnswers rows, with vectors assigned or not
EmbedAnswerTables ==
    {rows \in SUBSET {AnswerVectorRow(a[1], a[2], v) : a \in EmbedAnswerRows, v \in {NULL, "[0.1, 0.2]"}} :
        /\ Cardinality(rows) <= MaxAnswers
        /\ \A r1, r2 \in rows : r1.answer_id = r2.answer_id => r1 = r2}

Position(op, ok) == Last(op, "", ok)
Transaction(rows, answer_rows) == Applied("embed_answers", rows, answer_rows)

InitEmbedAnswers ==
    /\ schema = "v2"
    /\ respondents = {}
    /\ metadata = NoMetadata
    /\ codebooks = EmbedCodebookRows
    /\ answers \in EmbedAnswerTables
    /\ folder = 1
    /\ queue = <<>>
    /\ last = Position("while", TRUE)
    /\ applied = Transaction({}, answers)

\* cur.execute(query); rows = cur.fetchall(); if not rows: break
embed_answers_fetch ==
    /\ last = Position("while", TRUE)
    /\ \E rows \in fetchall(embed_query(answers, codebooks)) :
          /\ last' = IF rows = {} THEN Position("return", TRUE) ELSE Position("fetched", TRUE)
          /\ applied' = Transaction(rows, answers)
    /\ UNCHANGED <<tables, folder, queue>>

\* the for loop over the rows and the two execute_values
embed_answers_update ==
    /\ last = Position("fetched", TRUE)
    /\ applied' = Transaction(applied.args,
                              update_query_null(update_query(applied.result,
                                                             tasks(applied.args, codebooks), codebooks),
                                                ids_to_mark_null(applied.args, codebooks)))
    /\ last' = Position("updated", TRUE)
    /\ UNCHANGED <<tables, folder, queue>>

\* conn.commit(); total_processed += len(rows)
embed_answers_commit ==
    /\ last = Position("updated", TRUE)
    /\ answers' = applied.result
    /\ applied' = Transaction({}, applied.result)
    /\ last' = Position("while", TRUE)
    /\ UNCHANGED <<schema, respondents, metadata, codebooks, folder, queue>>

\* except Exception: conn.rollback(), from the query, the model, an update
\* or the commit
embed_answers_except ==
    /\ last.op \in {"while", "fetched", "updated"}
    /\ applied' = Transaction({}, answers)
    /\ last' = Position("return", FALSE)
    /\ UNCHANGED <<tables, folder, queue>>

NextEmbedAnswers ==
    \/ embed_answers_fetch
    \/ embed_answers_update
    \/ embed_answers_commit
    \/ embed_answers_except

\* embed_answers runs in one thread until it returns
SpecEmbedAnswers == InitEmbedAnswers /\ [][NextEmbedAnswers]_vars /\ WF_vars(NextEmbedAnswers)

(***************************************************************************)
(* C30: the answer-embedding loop terminates.  The function returns; a     *)
(* commit leaves every fetched row with a vector and strictly fewer rows   *)
(* for the query to select; the function returns without an exception     *)
(* only when the query selects no row; and when it returns after an        *)
(* exception the table is as the last commit left it.                      *)
(***************************************************************************)
Selected == embed_query(answers, codebooks)

C30_EmbedAnswersTerminates ==
    /\ <>(last.op = "return")
    /\ [][(last.op = "updated" /\ last'.op = "while")
          => /\ Selected' \subseteq Selected
             /\ Selected' # Selected
             /\ \A f \in applied.args : \A r \in answers' :
                   r.answer_id = f.answer_id => r.a_vector # NULL]_vars
    /\ [](last = Position("return", TRUE) => Selected = {})
    /\ [][(last'.op = "return" /\ ~last'.ok) => (answers' = answers /\ applied'.result = answers)]_vars

\* Returned after more than one batch, with embeddings and zero vectors
\* written and a row that joins no codebook entry left without a vector
C30_ReturnedAfterTwoBatches ==
    /\ last = Position("return", TRUE)
    /\ Cardinality({r \in answers : r.a_vector \in {zero_vector, get_embeddings("single"),
                                                    get_embeddings("K5")}}) > BATCH_SIZE
    /\ \E r \in answers : r.a_vector = zero_vector /\ r.answer.answer_value = "2"
    /\ \E r \in answers : r.a_vector = get_embeddings("single")
    /\ \E r \in answers : r.a_vector = NULL /\ r.answer.question_id = "zz_Q"
====
